---- MODULE Spec2Model ----
(***************************************************************************)
(* Scheme-based I/O of the redox kernel: the TCP endpoint of               *)
(* filesystem/schemes/tcp/tcp.rs and the file resource of                  *)
(* kernel/schemes/file.rs, as state machines.                              *)
(***************************************************************************)
EXTENDS Integers, Sequences, FiniteSets, TLC

VARIABLES
    tcp,      \* [Endpoints -> Resource]: peer_addr, peer_port, host_port, sequence, acknowledge
    tpc,      \* [Endpoints -> position of the endpoint's caller]
    ipIn,     \* [Endpoints -> datagrams the ip handle will return from read_to_end]
    ipOut,    \* [Endpoints -> datagrams handed to ip.write, oldest first]
    ipOpen,   \* [Endpoints -> TRUE while the ip transport is open]
    arg,      \* [Endpoints -> argument of the call in progress]
    ret,      \* [Endpoints -> what the last finished call returned]
    hist,     \* [Endpoints -> bookkeeping: initial sequence, bytes of completed writes]
    taken,    \* [Endpoints -> bookkeeping: the datagram last read and the loop that read it]
    wired,    \* TRUE: the two endpoints' ip handles are connected to each other
    active,   \* the endpoints that run
    envCount, \* datagrams the environment has injected so far
    twin,     \* [Endpoints -> the resource Resource::dup returned, and whether it
              \* exists, is in use or was dropped]
    files,    \* [Handles -> FileResource]: node, vec, seek, dirty of every open file handle
    nodes,    \* fs.nodes: the node table in memory
    disk,     \* [block -> the 512 bytes of the sector]: the data sectors of the disk
    diskNodes,\* [block -> NodeData]: the node records on disk
    fret,     \* what the last file operation returned, and on which handle
    fops,     \* read, write and seek calls that may still be made
    codec,    \* one segment on its way through to_bytes and from_bytes: the
              \* segment built, the bytes, what parsing them gave
    io,       \* the block requests of open and sync, one at a time: what each
              \* context is waiting for, the queue of the disk, the node in
              \* fs.nodes and its record on disk
    flog      \* bookkeeping: the latest read, write and seek calls since a handle
              \* was last opened (the open call is the first one kept),
              \* duplicated or dropped, oldest first

tcpVars == <<tcp, tpc, ipIn, ipOut, ipOpen, arg, ret, hist, taken, wired, active, envCount, twin>>

fileVars == <<files, nodes, disk, diskNodes, fret, fops, flog>>

vars == <<tcp, tpc, ipIn, ipOut, ipOpen, arg, ret, hist, taken, wired, active, envCount, twin,
          files, nodes, disk, diskNodes, fret, fops, flog, codec, io>>

----------------------------------------------------------------------------
(* Bounds of the model *)

\* datagrams the environment may inject into one run
MaxEnv == 2
\* longest queue of unread datagrams the environment builds up
MaxQueue == 2
\* write() calls that may be started by one endpoint
MaxWrites == 1
\* read, write and seek calls made on the file handles of one run
MaxFileOps == 2
\* read, write and seek calls made on the one handle of a run of TripSpec
MaxTripOps == 4
\* nodes in a node table of OpenSpec
MaxNodes == 3
\* write calls one context makes between its open and its sync in RequestSpec
MaxAppends == 1
\* sync calls one context makes in RequestSpec
MaxSyncs == 1

----------------------------------------------------------------------------
(* Program constants *)

TCP_FIN == 1
TCP_SYN == 2
TCP_RST == 4
TCP_PSH == 8
TCP_ACK == 16

\* mem::size_of::<TCPHeader>()
HeaderSize == 20
\* window_size: n16::new(65535)
WindowSize == 65535
\* rand() % 32768 + 32768
EphemeralBase == 32768

U16 == 65536

\* A u32 is the pair <<high 16 bits, low 16 bits>>: the values of the code's
\* u32 counters do not fit the model checker's integers, their halves do
Word32(hi, lo) == <<hi, lo>>

\* u32 addition of a small number, wrapping at 2^32
Add32(v, n) == <<(v[1] + ((v[2] + n) \div U16)) % U16, (v[2] + n) % U16>>

Min(a, b) == IF a < b THEN a ELSE b

Zero32 == Word32(0, 0)
Max32 == Word32(U16 - 1, U16 - 1)

Endpoints == {"c", "s"}

Peer(e) == IF e = "c" THEN "s" ELSE "c"

\* the local host's address (the global IP_ADDR) of the host an endpoint runs on
IP_ADDR(e) == IF e = "c" THEN <<10, 0, 2, 15>> ELSE <<10, 0, 2, 2>>

----------------------------------------------------------------------------
(* The TCP segment codec *)

\* n16: a 16-bit value in network byte order
N16(v) == <<(v \div 256) % 256, v % 256>>

\* n32: a 32-bit value in network byte order
N32(v) == N16(v[1]) \o N16(v[2])

Get16(bytes, i) == bytes[i] * 256 + bytes[i + 1]

Get32(bytes, i) == Word32(Get16(bytes, i), Get16(bytes, i + 2))

\* bit number b (0 = least significant) of v
Bit(v, b) == (v \div (2 ^ b)) % 2

\* mutant of FlagMask: the FIN and RST bits are kept as well
FlagMaskWithFinRst(flags) ==
    TCP_FIN * Bit(flags, 0) + TCP_SYN * Bit(flags, 1) + TCP_RST * Bit(flags, 2)
        + TCP_PSH * Bit(flags, 3) + TCP_ACK * Bit(flags, 4)

\* mutant of FlagMask: the PSH bit is masked away
FlagMaskNoPush(flags) == TCP_SYN * Bit(flags, 1) + TCP_ACK * Bit(flags, 4)

\* flags & (TCP_PSH | TCP_SYN | TCP_ACK)
FlagMask(flags) == TCP_SYN * Bit(flags, 1) + TCP_PSH * Bit(flags, 3) + TCP_ACK * Bit(flags, 4)

\* mutant of EncodeHeaderLen: the length is shifted by 12 bits
EncodeHeaderLenShift12(header_bytes) == (header_bytes % 16) * 4096

\* ((header_bytes << 10) & 0xF000) as u16
EncodeHeaderLen(header_bytes) == (((header_bytes * 1024) \div 4096) % 16) * 4096

\* ((flags & 0xF000) >> 10) as usize
DecodeHeaderLen(flags) == ((flags \div 4096) % 16) * 4

\* Checksum::sum over a byte region: the 16-bit words added up, an odd last byte
\* taken as the high byte of a word
RECURSIVE ChecksumSum(_)
ChecksumSum(bytes) ==
    IF Len(bytes) = 0 THEN 0
    ELSE IF Len(bytes) = 1 THEN bytes[1] * 256
    ELSE bytes[1] * 256 + bytes[2] + ChecksumSum(SubSeq(bytes, 3, Len(bytes)))

\* Checksum::compile: end-around carry, then bitwise negation
RECURSIVE ChecksumCompile(_)
ChecksumCompile(sum) ==
    IF sum \div U16 > 0 THEN ChecksumCompile((sum % U16) + (sum \div U16))
    ELSE (U16 - 1) - sum

\* mutant of HeaderBytes: the destination port is written first
HeaderBytesPortsSwapped(h) ==
    N16(h.dst) \o N16(h.src) \o N32(h.sequence) \o N32(h.ack_num) \o N16(h.flags)
        \o N16(h.window_size) \o N16(h.checksum) \o N16(h.urgent_pointer)

\* the packed TCPHeader as bytes
HeaderBytes(h) ==
    N16(h.src) \o N16(h.dst) \o N32(h.sequence) \o N32(h.ack_num) \o N16(h.flags)
        \o N16(h.window_size) \o N16(h.checksum) \o N16(h.urgent_pointer)

\* ToBytes for TCP: header, options, data
ToBytes(seg) == HeaderBytes(seg) \o seg.options \o seg.data

\* FromBytes for TCP.  The two slices bytes[20..header_len] and
\* bytes[header_len..len] panic when header_len < 20 or header_len > len.
FromBytes(bytes) ==
    IF Len(bytes) >= HeaderSize
    THEN LET flags == Get16(bytes, 13)
             header_len == DecodeHeaderLen(flags)
         IN  IF header_len < HeaderSize \/ header_len > Len(bytes)
             THEN [kind |-> "panic"]
             ELSE [kind |-> "some",
                   src |-> Get16(bytes, 1),
                   dst |-> Get16(bytes, 3),
                   sequence |-> Get32(bytes, 5),
                   ack_num |-> Get32(bytes, 9),
                   flags |-> flags,
                   window_size |-> Get16(bytes, 15),
                   checksum |-> Get16(bytes, 17),
                   urgent_pointer |-> Get16(bytes, 19),
                   options |-> SubSeq(bytes, HeaderSize + 1, header_len),
                   data |-> SubSeq(bytes, header_len + 1, Len(bytes))]
    ELSE [kind |-> "none"]

\* The checksum of a segment sent from local address src_addr to dst_addr:
\* pseudo-header (addresses, protocol 0x06, segment length as u16), header
\* with a zero checksum field, options, data
SegmentChecksum(src_addr, dst_addr, seg) ==
    ChecksumCompile(
        ChecksumSum(src_addr) + ChecksumSum(dst_addr) + ChecksumSum(N16(6))
          + ChecksumSum(N16((HeaderSize + Len(seg.options) + Len(seg.data)) % U16))
          + ChecksumSum(HeaderBytes([seg EXCEPT !.checksum = 0]))
          + ChecksumSum(seg.options) + ChecksumSum(seg.data))

\* The segment every operation of a resource builds: ports and counters of
\* the resource r of endpoint e, a 20-byte header, the given flag bits and
\* payload, no options, the checksum filled in
Segment(e, r, flagbits, data) ==
    LET seg == [src |-> r.host_port,
                dst |-> r.peer_port,
                sequence |-> r.sequence,
                ack_num |-> r.acknowledge,
                flags |-> EncodeHeaderLen(HeaderSize) + flagbits,
                window_size |-> WindowSize,
                checksum |-> 0,
                urgent_pointer |-> 0,
                options |-> <<>>,
                data |-> data]
    IN  [seg EXCEPT !.checksum = SegmentChecksum(IP_ADDR(e), r.peer_addr, seg)]


----------------------------------------------------------------------------
(* The ip transport under a TCP resource, and what the environment is *)

None == [some |-> FALSE, val |-> 0]
Some(v) == [some |-> TRUE, val |-> v]

\* the port the passive side listens on and the active side connects to
ListenPort == 80
\* a port no resource of the model uses
OtherPort == 9
\* the source port of a remote client that is not part of the model
RemotePort == 40000

\* rand() % 32768 + 32768, its smallest and its largest value
EphemeralPorts == {EphemeralBase, EphemeralBase + 32767}

\* rand() as u32, two of its values, the second one step from overflow
ISNs == {Word32(0, 5), Max32}

NoResource ==
    [peer_addr |-> <<0, 0, 0, 0>>, peer_port |-> 0, host_port |-> 0,
     sequence |-> Zero32, acknowledge |-> Zero32]

NoArg == [n |-> 0, buf |-> <<>>, size |-> 0]

NoRet == [op |-> "none", ok |-> FALSE, val |-> 0, data |-> <<>>]

\* ip.read_to_end has something to return: a datagram, or None once the
\* transport is closed and drained; otherwise it blocks
CanRead(e) == ipIn[e] # <<>> \/ ~ipOpen[e]

\* ip.read_to_end returns None
ReadsNone(e) == ipIn[e] = <<>> /\ ~ipOpen[e]

\* what ip.write(bytes) returns: the number of bytes handed to it, None on a
\* closed transport
IpWrite(e, bytes) == IF ipOpen[e] THEN Some(Len(bytes)) ELSE None

\* One step's traffic on the ip handle of e: the datagram at the head of its
\* queue is taken if consume, and the datagrams of out are handed to ip.write;
\* an open transport carries them and, when wired, they arrive in order at
\* the other endpoint
Transfer(e, consume, out) ==
    LET carried == IF ipOpen[e] /\ wired THEN out ELSE <<>>
    IN  /\ ipOut' = [ipOut EXCEPT ![e] = @ \o out]
        /\ ipIn' = [x \in Endpoints |->
                      IF x = e
                      THEN IF consume THEN Tail(ipIn[e]) ELSE ipIn[e]
                      ELSE ipIn[x] \o carried]
        /\ taken' = IF consume
                    THEN [taken EXCEPT ![e] = [at |-> tpc[e], dgram |-> Head(ipIn[e])]]
                    ELSE taken

\* mutant of Matches: the source port is not compared
MatchesDstOnly(r, seg) == seg.dst = r.host_port

\* mutant of Matches: the destination port is not compared
MatchesSrcOnly(r, seg) == seg.src = r.peer_port

\* segment.header.dst.get() == self.host_port && segment.header.src.get() == self.peer_port
Matches(r, seg) == seg.dst = r.host_port /\ seg.src = r.peer_port

\* mutant of FinAck: the acknowledge number is left zero
FinAckZeroAcknowledge(e, r) ==
    ToBytes(Segment(e, [r EXCEPT !.acknowledge = Zero32], TCP_FIN + TCP_ACK, <<>>))

\* mutant of FinAck: the segment is flagged PSH|ACK
FinAckAsPush(e, r) == ToBytes(Segment(e, r, TCP_PSH + TCP_ACK, <<>>))

\* impl Drop for Resource: the FIN|ACK datagram
FinAck(e, r) == ToBytes(Segment(e, r, TCP_FIN + TCP_ACK, <<>>))


----------------------------------------------------------------------------
(* Resource: the counter updates of the four operations *)

\* mutant of ClientEstablished: the peer's SYN is not counted
ClientEstablishedNoIncrement(r, seg) ==
    [r EXCEPT !.sequence = seg.ack_num, !.acknowledge = seg.sequence]

\* client_establish on SYN|ACK: sequence = ack_num, acknowledge = sequence + 1
ClientEstablished(r, seg) ==
    [r EXCEPT !.sequence = seg.ack_num, !.acknowledge = Add32(seg.sequence, 1)]

\* mutant of SynReceived: the peer's SYN is not counted
SynReceivedNoIncrement(r) == r

\* server_establish on entry: self.acknowledge += 1
SynReceived(r) == [r EXCEPT !.acknowledge = Add32(r.acknowledge, 1)]

\* server_establish on ACK: sequence = ack_num, acknowledge = sequence
ServerEstablished(r, seg) ==
    [r EXCEPT !.sequence = seg.ack_num, !.acknowledge = seg.sequence]

\* mutant of ReadReceived: the payload is not counted
ReadReceivedNoLength(r, seg) ==
    [r EXCEPT !.sequence = seg.ack_num, !.acknowledge = seg.sequence]

\* read on PSH|ACK: sequence = ack_num, acknowledge = sequence + data.len()
ReadReceived(r, seg) ==
    [r EXCEPT !.sequence = seg.ack_num,
              !.acknowledge = Add32(seg.sequence, Len(seg.data))]

\* write on ACK: sequence = ack_num, acknowledge = sequence
WriteAcked(r, seg) ==
    [r EXCEPT !.sequence = seg.ack_num, !.acknowledge = seg.sequence]

\* mutant of ReadAccepts: any segment of the connection is taken as data
ReadAcceptsAnyFlags(r, seg) == seg.dst = r.host_port /\ seg.src = r.peer_port

\* the condition under which read takes a segment
ReadAccepts(r, seg) ==
    FlagMask(seg.flags) = TCP_PSH + TCP_ACK /\ seg.dst = r.host_port /\ seg.src = r.peer_port

\* mutant of Copied: the bound of the caller's buffer is not checked
CopiedWhole(n, data) == data

\* read's copy loop: the first min(buf.len(), data.len()) bytes
Copied(n, data) == SubSeq(data, 1, IF n < Len(data) THEN n ELSE Len(data))

\* what write returns on the ACK: the size ip.write returned for the segment
WriteReturn(size, buf) == size


----------------------------------------------------------------------------
(* Scheme::open and the operations of a Resource.  A call that waits in a *)
(* loop on ip.read_to_end is one action for its part before the loop and  *)
(* one action per datagram (or None) the read returns.                    *)

Finish(e, op, ok, val, data) ==
    ret' = [ret EXCEPT ![e] = [op |-> op, ok |-> ok, val |-> val, data |-> data]]

\* Scheme::open, active: build the resource, then client_establish up to its loop
OpenActive(e, port, isn) ==
    LET r == [peer_addr |-> IP_ADDR(Peer(e)), peer_port |-> ListenPort,
              host_port |-> port, sequence |-> isn, acknowledge |-> Zero32]
        syn == ToBytes(Segment(e, r, TCP_SYN, <<>>))
    IN  /\ e \in active /\ e = "c" /\ tpc[e] = "init"
        /\ UNCHANGED <<fileVars, codec, io, twin>>
        /\ IF IpWrite(e, syn).some
           THEN /\ tcp' = [tcp EXCEPT ![e] = r]
                /\ tpc' = [tpc EXCEPT ![e] = "client_wait"]
                /\ hist' = [hist EXCEPT ![e].isn = isn]
                /\ Transfer(e, FALSE, <<syn>>)
                /\ UNCHANGED ret
           ELSE \* client_establish returns false, the resource is dropped, open returns None
                /\ tpc' = [tpc EXCEPT ![e] = "gone"]
                /\ Finish(e, "client_establish", FALSE, 0, <<>>)
                /\ tcp' = [tcp EXCEPT ![e] = r]
                /\ Transfer(e, FALSE, <<syn, FinAck(e, r)>>)
                /\ UNCHANGED hist
        /\ UNCHANGED <<ipOpen, arg, wired, active, envCount>>

\* client_establish: one turn of its loop
ClientEstablishRecv(e) ==
    /\ e \in active /\ tpc[e] = "client_wait" /\ CanRead(e)
    /\ UNCHANGED <<fileVars, codec, io, twin>>
    /\ IF ReadsNone(e)
       THEN /\ tpc' = [tpc EXCEPT ![e] = "gone"]
            /\ Finish(e, "client_establish", FALSE, 0, <<>>)
            /\ Transfer(e, FALSE, <<FinAck(e, tcp[e])>>)
            /\ UNCHANGED tcp
       ELSE LET seg == FromBytes(Head(ipIn[e]))
            IN  CASE seg.kind = "panic" ->
                       /\ tpc' = [tpc EXCEPT ![e] = "panic"]
                       /\ Transfer(e, TRUE, <<>>)
                       /\ UNCHANGED <<tcp, ret>>
                  [] seg.kind = "none" ->
                       /\ Transfer(e, TRUE, <<>>)
                       /\ UNCHANGED <<tcp, tpc, ret>>
                  [] seg.kind = "some" /\ ~Matches(tcp[e], seg) ->
                       /\ Transfer(e, TRUE, <<>>)
                       /\ UNCHANGED <<tcp, tpc, ret>>
                  [] seg.kind = "some" /\ Matches(tcp[e], seg)
                       /\ FlagMask(seg.flags) = TCP_SYN + TCP_ACK ->
                       LET r == ClientEstablished(tcp[e], seg)
                       IN  /\ tcp' = [tcp EXCEPT ![e] = r]
                           /\ tpc' = [tpc EXCEPT ![e] = "idle"]
                           /\ Finish(e, "client_establish", TRUE, 0, <<>>)
                           /\ Transfer(e, TRUE, <<ToBytes(Segment(e, r, TCP_ACK, <<>>))>>)
                  [] OTHER ->
                       /\ tpc' = [tpc EXCEPT ![e] = "gone"]
                       /\ Finish(e, "client_establish", FALSE, 0, <<>>)
                       /\ Transfer(e, TRUE, <<FinAck(e, tcp[e])>>)
                       /\ UNCHANGED tcp
    /\ UNCHANGED <<ipOpen, arg, hist, wired, active, envCount>>

\* Scheme::open, passive: enter the listening loop
OpenPassive(e, port) ==
    /\ e \in active /\ e = "s" /\ tpc[e] = "init"
    /\ UNCHANGED <<fileVars, codec, io, twin>>
    /\ tpc' = [tpc EXCEPT ![e] = "listen"]
    /\ arg' = [arg EXCEPT ![e] = [NoArg EXCEPT !.n = port]]
    /\ UNCHANGED <<tcp, ipIn, ipOut, ipOpen, ret, hist, taken, wired, active, envCount>>

\* Scheme::open, passive: one turn of the listening loop; on a SYN for the
\* port the resource is built and server_establish runs up to its loop
ListenRecv(e, isn) ==
    /\ e \in active /\ tpc[e] = "listen" /\ CanRead(e)
    /\ UNCHANGED <<fileVars, codec, io, twin>>
    /\ IF ReadsNone(e)
       THEN /\ tpc' = [tpc EXCEPT ![e] = "gone"]
            /\ Finish(e, "open", FALSE, 0, <<>>)
            /\ UNCHANGED <<tcp, ipIn, ipOut, hist, taken>>
       ELSE LET seg == FromBytes(Head(ipIn[e]))
            IN  CASE seg.kind = "panic" ->
                       /\ tpc' = [tpc EXCEPT ![e] = "panic"]
                       /\ Transfer(e, TRUE, <<>>)
                       /\ UNCHANGED <<tcp, ret, hist>>
                  [] seg.kind = "some" /\ seg.dst = arg[e].n
                       /\ FlagMask(seg.flags) = TCP_SYN ->
                       LET r0 == [peer_addr |-> IP_ADDR(Peer(e)), peer_port |-> seg.src,
                                  host_port |-> arg[e].n, sequence |-> isn,
                                  acknowledge |-> seg.sequence]
                           r == SynReceived(r0)
                           synack == ToBytes(Segment(e, r, TCP_SYN + TCP_ACK, <<>>))
                       IN  /\ tcp' = [tcp EXCEPT ![e] = r]
                           /\ hist' = [hist EXCEPT ![e].isn = isn]
                           /\ IF IpWrite(e, synack).some
                              THEN /\ tpc' = [tpc EXCEPT ![e] = "server_wait"]
                                   /\ Transfer(e, TRUE, <<synack>>)
                                   /\ UNCHANGED ret
                              ELSE \* server_establish returns false, the resource is dropped
                                   /\ Finish(e, "server_establish", FALSE, 0, <<>>)
                                   /\ Transfer(e, TRUE, <<synack, FinAck(e, r)>>)
                                   /\ UNCHANGED tpc
                  [] OTHER ->
                       /\ Transfer(e, TRUE, <<>>)
                       /\ UNCHANGED <<tcp, tpc, ret, hist>>
    /\ UNCHANGED <<ipOpen, arg, wired, active, envCount>>

\* server_establish: one turn of its loop; on failure the resource is dropped
\* and Scheme::open goes on listening
ServerEstablishRecv(e) ==
    /\ e \in active /\ tpc[e] = "server_wait" /\ CanRead(e)
    /\ UNCHANGED <<fileVars, codec, io, twin>>
    /\ IF ReadsNone(e)
       THEN /\ tpc' = [tpc EXCEPT ![e] = "listen"]
            /\ Finish(e, "server_establish", FALSE, 0, <<>>)
            /\ Transfer(e, FALSE, <<FinAck(e, tcp[e])>>)
            /\ UNCHANGED tcp
       ELSE LET seg == FromBytes(Head(ipIn[e]))
            IN  CASE seg.kind = "panic" ->
                       /\ tpc' = [tpc EXCEPT ![e] = "panic"]
                       /\ Transfer(e, TRUE, <<>>)
                       /\ UNCHANGED <<tcp, ret>>
                  [] seg.kind = "none" ->
                       /\ Transfer(e, TRUE, <<>>)
                       /\ UNCHANGED <<tcp, tpc, ret>>
                  [] seg.kind = "some" /\ ~Matches(tcp[e], seg) ->
                       /\ Transfer(e, TRUE, <<>>)
                       /\ UNCHANGED <<tcp, tpc, ret>>
                  [] seg.kind = "some" /\ Matches(tcp[e], seg)
                       /\ FlagMask(seg.flags) = TCP_ACK ->
                       /\ tcp' = [tcp EXCEPT ![e] = ServerEstablished(tcp[e], seg)]
                       /\ tpc' = [tpc EXCEPT ![e] = "idle"]
                       /\ Finish(e, "server_establish", TRUE, 0, <<>>)
                       /\ Transfer(e, TRUE, <<>>)
                  [] OTHER ->
                       /\ tpc' = [tpc EXCEPT ![e] = "listen"]
                       /\ Finish(e, "server_establish", FALSE, 0, <<>>)
                       /\ Transfer(e, TRUE, <<FinAck(e, tcp[e])>>)
                       /\ UNCHANGED tcp
    /\ UNCHANGED <<ipOpen, arg, hist, wired, active, envCount>>


\* Resource::read(buf) with buf.len() = n: entry
Read(e, n) ==
    /\ e \in active /\ tpc[e] = "idle"
    /\ UNCHANGED <<fileVars, codec, io, twin>>
    /\ tpc' = [tpc EXCEPT ![e] = "read_wait"]
    /\ arg' = [arg EXCEPT ![e] = [NoArg EXCEPT !.n = n]]
    /\ UNCHANGED <<tcp, ipIn, ipOut, ipOpen, ret, hist, taken, wired, active, envCount>>

\* Resource::read: one turn of its loop
ReadRecv(e) ==
    /\ e \in active /\ tpc[e] = "read_wait" /\ CanRead(e)
    /\ UNCHANGED <<fileVars, codec, io, twin>>
    /\ IF ReadsNone(e)
       THEN /\ tpc' = [tpc EXCEPT ![e] = "idle"]
            /\ Finish(e, "read", FALSE, 0, <<>>)
            /\ UNCHANGED <<tcp, ipIn, ipOut, taken>>
       ELSE LET seg == FromBytes(Head(ipIn[e]))
            IN  CASE seg.kind = "panic" ->
                       /\ tpc' = [tpc EXCEPT ![e] = "panic"]
                       /\ Transfer(e, TRUE, <<>>)
                       /\ UNCHANGED <<tcp, ret>>
                  [] seg.kind = "some" /\ ReadAccepts(tcp[e], seg) ->
                       LET r == ReadReceived(tcp[e], seg)
                           got == Copied(arg[e].n, seg.data)
                       IN  /\ tcp' = [tcp EXCEPT ![e] = r]
                           /\ tpc' = [tpc EXCEPT ![e] = "idle"]
                           /\ Finish(e, "read", TRUE, Len(got), got)
                           /\ Transfer(e, TRUE, <<ToBytes(Segment(e, r, TCP_ACK, <<>>))>>)
                  [] OTHER ->
                       /\ Transfer(e, TRUE, <<>>)
                       /\ UNCHANGED <<tcp, tpc, ret>>
    /\ UNCHANGED <<ipOpen, arg, hist, wired, active, envCount>>

\* mutant of Write: the sequence is advanced when the segment is sent
WriteCountsAtSend(e, buf) ==
    LET psh == ToBytes(Segment(e, tcp[e], TCP_PSH + TCP_ACK, buf))
        sent == IpWrite(e, psh)
    IN  /\ e \in active /\ tpc[e] = "idle"
        /\ UNCHANGED <<fileVars, codec, io, twin>>
        /\ hist[e].writes < MaxWrites
        /\ hist' = [hist EXCEPT ![e].writes = @ + 1]
        /\ IF sent.some
           THEN /\ tpc' = [tpc EXCEPT ![e] = "write_wait"]
                /\ arg' = [arg EXCEPT ![e] = [n |-> 0, buf |-> buf, size |-> sent.val]]
                /\ Transfer(e, FALSE, <<psh>>)
                /\ UNCHANGED ret
           ELSE /\ Finish(e, "write", FALSE, 0, <<>>)
                /\ Transfer(e, FALSE, <<psh>>)
                /\ UNCHANGED <<tpc, arg>>
        /\ tcp' = [tcp EXCEPT ![e].sequence = Add32(@, Len(buf))]
        /\ UNCHANGED <<ipOpen, wired, active, envCount>>

\* Resource::write(buf): up to its loop
Write(e, buf) ==
    LET psh == ToBytes(Segment(e, tcp[e], TCP_PSH + TCP_ACK, buf))
        sent == IpWrite(e, psh)
    IN  /\ e \in active /\ tpc[e] = "idle"
        /\ UNCHANGED <<fileVars, codec, io, twin>>
        /\ hist[e].writes < MaxWrites
        /\ hist' = [hist EXCEPT ![e].writes = @ + 1]
        /\ IF sent.some
           THEN /\ tpc' = [tpc EXCEPT ![e] = "write_wait"]
                /\ arg' = [arg EXCEPT ![e] = [n |-> 0, buf |-> buf, size |-> sent.val]]
                /\ Transfer(e, FALSE, <<psh>>)
                /\ UNCHANGED ret
           ELSE /\ Finish(e, "write", FALSE, 0, <<>>)
                /\ Transfer(e, FALSE, <<psh>>)
                /\ UNCHANGED <<tpc, arg>>
        /\ UNCHANGED <<tcp, ipOpen, wired, active, envCount>>

\* Resource::write: one turn of its loop
WriteRecv(e) ==
    /\ e \in active /\ tpc[e] = "write_wait" /\ CanRead(e)
    /\ UNCHANGED <<fileVars, codec, io, twin>>
    /\ IF ReadsNone(e)
       THEN /\ tpc' = [tpc EXCEPT ![e] = "idle"]
            /\ Finish(e, "write", FALSE, 0, <<>>)
            /\ UNCHANGED <<tcp, ipIn, ipOut, hist, taken>>
       ELSE LET seg == FromBytes(Head(ipIn[e]))
            IN  CASE seg.kind = "panic" ->
                       /\ tpc' = [tpc EXCEPT ![e] = "panic"]
                       /\ Transfer(e, TRUE, <<>>)
                       /\ UNCHANGED <<tcp, ret, hist>>
                  [] seg.kind = "none" ->
                       /\ Transfer(e, TRUE, <<>>)
                       /\ UNCHANGED <<tcp, tpc, ret, hist>>
                  [] seg.kind = "some" /\ ~Matches(tcp[e], seg) ->
                       /\ Transfer(e, TRUE, <<>>)
                       /\ UNCHANGED <<tcp, tpc, ret, hist>>
                  [] seg.kind = "some" /\ Matches(tcp[e], seg)
                       /\ FlagMask(seg.flags) = TCP_ACK ->
                       /\ tcp' = [tcp EXCEPT ![e] = WriteAcked(tcp[e], seg)]
                       /\ tpc' = [tpc EXCEPT ![e] = "idle"]
                       /\ Finish(e, "write", TRUE, WriteReturn(arg[e].size, arg[e].buf), <<>>)
                       /\ hist' = [hist EXCEPT ![e].written = @ + Len(arg[e].buf)]
                       /\ Transfer(e, TRUE, <<>>)
                  [] OTHER ->
                       /\ tpc' = [tpc EXCEPT ![e] = "idle"]
                       /\ Finish(e, "write", FALSE, 0, <<>>)
                       /\ Transfer(e, TRUE, <<>>)
                       /\ UNCHANGED <<tcp, hist>>
    /\ UNCHANGED <<ipOpen, arg, wired, active, envCount>>

\* no duplicate of the resource has been made
NoTwin == [pc |-> "none", r |-> NoResource]

\* mutant of TcpDup: the duplicate starts with fresh counters
TcpDupFresh(e) ==
    /\ e \in active /\ tpc[e] = "idle" /\ ipOpen[e]
    /\ twin[e].pc = "none"
    /\ twin' = [twin EXCEPT ![e] =
                   [pc |-> "idle",
                    r |-> [peer_addr |-> tcp[e].peer_addr, peer_port |-> tcp[e].peer_port,
                           host_port |-> tcp[e].host_port, sequence |-> Zero32,
                           acknowledge |-> Zero32]]]
    /\ UNCHANGED <<tcp, tpc, ipIn, ipOut, ipOpen, arg, ret, hist, taken, wired, active, envCount>>
    /\ UNCHANGED <<fileVars, codec, io>>

\* Resource::dup: a second resource on a duplicate of the ip handle, with a
\* copy of the address, the ports and the two counters. ip.dup() gives a
\* handle of the same connection while the transport is open; the model makes
\* one duplicate per endpoint
TcpDup(e) ==
    /\ e \in active /\ tpc[e] = "idle" /\ ipOpen[e]
    /\ twin[e].pc = "none"
    /\ twin' = [twin EXCEPT ![e] =
                   [pc |-> "idle",
                    r |-> [peer_addr |-> tcp[e].peer_addr, peer_port |-> tcp[e].peer_port,
                           host_port |-> tcp[e].host_port, sequence |-> tcp[e].sequence,
                           acknowledge |-> tcp[e].acknowledge]]]
    /\ UNCHANGED <<tcp, tpc, ipIn, ipOut, ipOpen, arg, ret, hist, taken, wired, active, envCount>>
    /\ UNCHANGED <<fileVars, codec, io>>

\* The owner of the two resources turns to the other one: the calls that follow
\* (read, write, drop) are made on it. tcp[e] and tpc[e] are the resource the
\* owner is calling, twin[e] the one at rest
Turn(e) ==
    /\ e \in active /\ tpc[e] \in {"idle", "gone"}
    /\ twin[e].pc \in {"idle", "gone"}
    /\ tpc[e] # "gone" \/ twin[e].pc # "gone"
    /\ tcp' = [tcp EXCEPT ![e] = twin[e].r]
    /\ tpc' = [tpc EXCEPT ![e] = twin[e].pc]
    /\ twin' = [twin EXCEPT ![e] = [pc |-> tpc[e], r |-> tcp[e]]]
    /\ UNCHANGED <<ipIn, ipOut, ipOpen, arg, ret, hist, taken, wired, active, envCount>>
    /\ UNCHANGED <<fileVars, codec, io>>

\* impl Drop for Resource: send FIN|ACK, wait for nothing
Drop(e) ==
    /\ e \in active /\ tpc[e] = "idle"
    /\ UNCHANGED <<fileVars, codec, io, twin>>
    /\ tpc' = [tpc EXCEPT ![e] = "gone"]
    /\ Transfer(e, FALSE, <<FinAck(e, tcp[e])>>)
    /\ UNCHANGED <<tcp, ipOpen, arg, ret, hist, wired, active, envCount>>

----------------------------------------------------------------------------
(* The environment of a single endpoint: a remote peer that may send anything *)

\* a datagram with the given ports, counters, flags word, options and payload
Datagram(src, dst, sequence, ack_num, flags, options, data) ==
    ToBytes([src |-> src, dst |-> dst, sequence |-> sequence, ack_num |-> ack_num,
             flags |-> flags, window_size |-> WindowSize, checksum |-> 0,
             urgent_pointer |-> 0, options |-> options, data |-> data])

\* the local and the remote port of the connection endpoint e has or listens for
LocalPort(e) == IF tpc[e] = "listen" THEN arg[e].n ELSE tcp[e].host_port
PeerPort(e) == IF tpc[e] = "listen" THEN RemotePort ELSE tcp[e].peer_port

Payload == <<7, 8, 9>>

\* the flag combinations the remote peer uses
EnvFlags ==
    {TCP_SYN, TCP_SYN + TCP_ACK, TCP_ACK, TCP_PSH + TCP_ACK, TCP_RST + TCP_ACK,
     TCP_FIN + TCP_ACK}

\* The datagrams the remote peer may send to e: for every flag combination a
\* segment of the connection; segments from another source port and to another
\* destination port carrying the flags the loops wait for; a segment with
\* options; and three that are no segments
EnvDatagrams(e) ==
    LET lp == LocalPort(e)
        pp == PeerPort(e)
        sq(f) == IF f = TCP_SYN + TCP_ACK THEN Word32(0, 1000)
                 ELSE IF f = TCP_SYN THEN Max32 ELSE Word32(U16 - 1, U16 - 2)
        ak(f) == IF f = TCP_SYN + TCP_ACK THEN Add32(tcp[e].sequence, 1) ELSE Word32(0, 3000)
        pl(f) == IF f = TCP_PSH + TCP_ACK THEN Payload ELSE <<>>
        hl == EncodeHeaderLen(HeaderSize)
    IN  { Datagram(pp, lp, sq(f), ak(f), hl + f, <<>>, pl(f)) : f \in EnvFlags }
          \cup { Datagram(OtherPort, lp, sq(f), ak(f), hl + f, <<>>, pl(f)) :
                    f \in {TCP_SYN + TCP_ACK, TCP_ACK, TCP_PSH + TCP_ACK} }
          \cup { Datagram(pp, OtherPort, sq(f), ak(f), hl + f, <<>>, pl(f)) :
                    f \in {TCP_SYN, TCP_ACK} }
          \cup { Datagram(pp, lp, Word32(0, 2000), Word32(0, 3000), EncodeHeaderLen(HeaderSize + 4) + TCP_PSH + TCP_ACK,
                          <<1, 1, 1, 1>>, <<7>>),
                 <<1, 2, 3>>,
                 Datagram(pp, lp, Word32(0, 2000), Word32(0, 3000), TCP_ACK, <<>>, <<>>),
                 Datagram(pp, lp, Word32(0, 2000), Word32(0, 3000), EncodeHeaderLen(HeaderSize + 8) + TCP_ACK, <<>>, <<>>) }

\* the remote peer sends a datagram to e
EnvDeliver(e) ==
    /\ ~wired /\ e \in active /\ ipOpen[e]
    /\ UNCHANGED <<fileVars, codec, io, twin>>
    /\ tpc[e] \notin {"init", "gone", "panic"}
    /\ envCount < MaxEnv /\ Len(ipIn[e]) < MaxQueue
    /\ \E d \in EnvDatagrams(e) : ipIn' = [ipIn EXCEPT ![e] = Append(@, d)]
    /\ envCount' = envCount + 1
    /\ UNCHANGED <<tcp, tpc, ipOut, ipOpen, arg, ret, hist, taken, wired, active>>

\* the ip transport of e closes
EnvClose(e) ==
    /\ ~wired /\ e \in active /\ ipOpen[e]
    /\ UNCHANGED <<fileVars, codec, io, twin>>
    /\ ipOpen' = [ipOpen EXCEPT ![e] = FALSE]
    /\ UNCHANGED <<tcp, tpc, ipIn, ipOut, arg, ret, hist, taken, wired, active, envCount>>

----------------------------------------------------------------------------
(* The codec on its own: one segment built and serialized, or one datagram *)
(* received, and parsed                                                    *)

NoSegment ==
    [src |-> 0, dst |-> 0, sequence |-> Zero32, ack_num |-> Zero32, flags |-> 0,
     window_size |-> 0, checksum |-> 0, urgent_pointer |-> 0,
     options |-> <<>>, data |-> <<>>]

\* no segment is under way
CodecIdle ==
    codec = [pc |-> "off", seg |-> NoSegment, wire |-> <<>>, parsed |-> [kind |-> "none"]]

\* a segment is built the way the operations of Resource build theirs, here
\* also with words option bytes, which the header length in flags counts
Build(src, sequence, flagbits, words, data) ==
    LET options == [i \in 1..(4 * words) |-> 1]
        seg == [src |-> src, dst |-> ListenPort,
                sequence |-> sequence, ack_num |-> Add32(sequence, 7),
                flags |-> EncodeHeaderLen(HeaderSize + Len(options)) + flagbits,
                window_size |-> WindowSize, checksum |-> 0, urgent_pointer |-> 0,
                options |-> options, data |-> data]
    IN  /\ codec.pc = "start"
        /\ codec' = [codec EXCEPT
                        !.pc = "built",
                        !.seg = [seg EXCEPT !.checksum =
                                    SegmentChecksum(IP_ADDR("c"), IP_ADDR("s"), seg)]]
        /\ UNCHANGED <<tcpVars, fileVars, io>>

\* segment.to_bytes()
Serialize ==
    /\ codec.pc = "built"
    /\ codec' = [codec EXCEPT !.pc = "serialized", !.wire = ToBytes(codec.seg)]
    /\ UNCHANGED <<tcpVars, fileVars, io>>

\* ip.read_to_end returned bytes
Receive(bytes) ==
    /\ codec.pc = "start"
    /\ codec' = [codec EXCEPT !.pc = "received", !.wire = bytes]
    /\ UNCHANGED <<tcpVars, fileVars, io>>

\* TCP::from_bytes(bytes): Some, None, or the crash of one of its slices
Parse ==
    /\ codec.pc \in {"serialized", "received"}
    /\ codec' = [codec EXCEPT
                    !.pc = IF FromBytes(codec.wire).kind = "panic"
                           THEN "panic"
                           ELSE IF codec.pc = "serialized" THEN "parsed"
                           ELSE "parsed_received",
                    !.parsed = FromBytes(codec.wire)]
    /\ UNCHANGED <<tcpVars, fileVars, io>>

----------------------------------------------------------------------------
(* The file system: extents, nodes, the disk *)

\* let block_size: usize = 512
BlockSize == 512

\* extents: [Extent; 16]
ExtentSlots == 16

\* bytes that lie in memory behind the end of a buffer
Garbage == {0, 170}

Extent(block, length) == [block |-> block, length |-> length]

EmptyExtent == Extent(0, 0)

\* extent.block > 0 && extent.length > 0
NonEmpty(extent) == extent.block > 0 /\ extent.length > 0

\* (length + 511) / 512
Sectors(length) == (length + BlockSize - 1) \div BlockSize

\* an extent array whose first slots are the given extents
Extents(first) == [i \in 1..ExtentSlots |-> IF i <= Len(first) THEN first[i] ELSE EmptyExtent]

\* Node::data: the record of a node as stored in its block
NodeData(node) == [name |-> node.name, extents |-> node.extents]

\* '/' and "\n" as bytes
Slash == 47
Newline == 10

\* node.name.starts_with(directory)
StartsWith(name, directory) ==
    Len(name) >= Len(directory) /\ SubSeq(name, 1, Len(directory)) = directory

\* FileSystem::list: of every node whose name starts with directory, in the
\* order of the node table, what follows directory in the name
RECURSIVE FsList(_, _, _)
FsList(nds, directory, i) ==
    IF i > Len(nds) THEN <<>>
    ELSE (IF StartsWith(nds[i].name, directory)
          THEN <<SubSeq(nds[i].name, Len(directory) + 1, Len(nds[i].name))>>
          ELSE <<>>)
            \o FsList(nds, directory, i + 1)

\* file.find('/'): the place of the first '/' counted from 1, 0 when there is none
Find(file) ==
    LET at == {i \in DOMAIN file : file[i] = Slash}
    IN  IF at = {} THEN 0 ELSE CHOOSE i \in at : \A j \in at : i <= j

\* mutant of DirSeen: no directory counts as listed before
DirNeverSeen(dirs, dirname) == FALSE

\* the search of dirs for dirname
DirSeen(dirs, dirname) == \E k \in DOMAIN dirs : dirs[k] = dirname

\* if line.len() > 0 { if list.len() > 0 { list + "\n" + line } else { line } }
JoinLine(list, line) ==
    IF Len(line) > 0
    THEN (IF Len(list) > 0 THEN list \o <<Newline>> \o line ELSE line)
    ELSE list

\* FileScheme::open of a directory: the loop over fs.list(path) from entry i
\* on, with the directories listed so far and the text built so far
RECURSIVE DirListing(_, _, _, _)
DirListing(entries, i, dirs, list) ==
    IF i > Len(entries) THEN list
    ELSE LET file == entries[i]
             index == Find(file)
             dirname == SubSeq(file, 1, index)
             found == DirSeen(dirs, dirname)
             line == IF index > 0 THEN (IF found THEN <<>> ELSE dirname) ELSE file
         IN  DirListing(entries, i + 1,
                        IF index > 0 /\ ~found THEN Append(dirs, dirname) ELSE dirs,
                        JoinLine(list, line))

\* path.len() == 0 || path.ends_with('/')
IsDirectory(path) == Len(path) = 0 \/ path[Len(path)] = Slash

\* mutant of FsNode: the last node with the name
FsNodeLast(nds, filename) ==
    LET found == {i \in DOMAIN nds : nds[i].name = filename}
    IN  IF found = {} THEN None
        ELSE Some(nds[CHOOSE i \in found : \A j \in found : i >= j])

\* FileSystem::node: the first node with the name
FsNode(nds, filename) ==
    LET found == {i \in DOMAIN nds : nds[i].name = filename}
    IN  IF found = {} THEN None
        ELSE Some(nds[CHOOSE i \in found : \A j \in found : i <= j])

\* The requests one extent is transferred in: while 65536 or more sectors are
\* left, one of 65536 sectors, after which the position advances by 65535;
\* then one for the rest
RECURSIVE ChunkRequests(_, _, _)
ChunkRequests(block, sectors, sector) ==
    IF sectors - sector >= 65536
    THEN <<[block |-> block + sector, length |-> 65536 * 512, mem |-> sector * 512]>>
            \o ChunkRequests(block, sectors, sector + 65535)
    ELSE IF sector < sectors
         THEN <<[block |-> block + sector, length |-> (sectors - sector) * 512,
                 mem |-> sector * 512]>>
         ELSE <<>>

\* n bytes of memory from offset from (counted from 0) of the buffer vec; what
\* lies behind the buffer is g
Memory(vec, g, from, n) ==
    [i \in 1..n |-> IF from + i <= Len(vec) THEN vec[from + i] ELSE g]

\* Disk: a write request stores the sectors its length covers, taken from
\* memory at its address, in consecutive blocks
DiskWrite(d, vec, g, pos, request) ==
    [b \in DOMAIN d |->
        IF b >= request.block /\ b < request.block + Sectors(request.length)
        THEN Memory(vec, g, pos + request.mem + (b - request.block) * BlockSize, BlockSize)
        ELSE d[b]]

RECURSIVE DiskWriteAll(_, _, _, _, _)
DiskWriteAll(d, vec, g, pos, requests) ==
    IF requests = <<>> THEN d
    ELSE DiskWriteAll(DiskWrite(d, vec, g, pos, Head(requests)), vec, g, pos, Tail(requests))

\* Disk: a read request stores the sectors its length covers, from consecutive
\* blocks, in memory at its address; image is the memory (offsets from 1)
\* the extent is read into, as long as the sectors of the extent
DiskRead(d, image, request) ==
    [i \in 1..Len(image) |->
        IF /\ i > request.mem
           /\ i <= request.mem + Sectors(request.length) * BlockSize
        THEN d[request.block + (i - 1 - request.mem) \div BlockSize]
              [((i - 1 - request.mem) % BlockSize) + 1]
        ELSE image[i]]

RECURSIVE DiskReadAll(_, _, _)
DiskReadAll(d, image, requests) ==
    IF requests = <<>> THEN image
    ELSE DiskReadAll(d, DiskRead(d, image, Head(requests)), Tail(requests))

\* FileScheme::open, one extent: the extent is read sector-wise into memory
\* and the first extent.length bytes of it are taken
ExtentBytes(d, extent) ==
    LET sectors == (extent.length + 511) \div 512
        image == DiskReadAll(d, [i \in 1..(sectors * 512) |-> 0],
                             ChunkRequests(extent.block, sectors, 0))
    IN  SubSeq(image, 1, extent.length)

\* FileScheme::open: the buffer is the non-empty extents' bytes in slot order
RECURSIVE NodeBytes(_, _, _)
NodeBytes(d, extents, i) ==
    IF i > ExtentSlots THEN <<>>
    ELSE (IF NonEmpty(extents[i]) THEN ExtentBytes(d, extents[i]) ELSE <<>>)
            \o NodeBytes(d, extents, i + 1)

----------------------------------------------------------------------------
(* FileResource: dup, read, write, seek, sync *)

Handles == {1, 2}

\* a handle slot that holds no resource
NoFile ==
    [open |-> FALSE, node |-> [block |-> 0, name |-> <<>>, extents |-> Extents(<<>>)],
     vec |-> <<>>, seek |-> 0, dirty |-> FALSE]

NoFileRet == [h |-> 0, op |-> "none", ok |-> FALSE, val |-> 0, data |-> <<>>, was_dirty |-> FALSE]

Max(a, b) == IF a > b THEN a ELSE b

\* ResourceSeek
SeekStart(offset) == [whence |-> "Start", offset |-> offset]
SeekCurrent(offset) == [whence |-> "Current", offset |-> offset]
SeekEnd(offset) == [whence |-> "End", offset |-> offset]

\* FileScheme::open for a node that was found
Opened(d, node) ==
    [open |-> TRUE, node |-> node, vec |-> NodeBytes(d, node.extents, 1),
     seek |-> 0, dirty |-> FALSE]

\* read: bytes are copied while the caller's buffer has room and the cursor is
\* before the end of the buffer
ReadCount(r, n) == IF r.seek < Len(r.vec) THEN Min(n, Len(r.vec) - r.seek) ELSE 0

FileReadData(r, n) == SubSeq(r.vec, r.seek + 1, r.seek + ReadCount(r, n))

FileReadTo(r, n) == [r EXCEPT !.seek = r.seek + ReadCount(r, n)]

\* mutant of FileWriteTo: every byte is pushed at the end of the buffer
FileWriteAtEnd(r, buf) ==
    [r EXCEPT !.vec = r.vec \o buf,
              !.seek = r.seek + Len(buf),
              !.dirty = r.dirty \/ Len(buf) > 0]

\* mutant of FileWriteTo: dirty is set whatever was written
FileWriteAlwaysDirty(r, buf) ==
    LET k == IF r.seek < Len(r.vec) THEN Min(Len(buf), Len(r.vec) - r.seek) ELSE 0
        over == [i \in 1..Len(r.vec) |->
                    IF i > r.seek /\ i <= r.seek + k THEN buf[i - r.seek] ELSE r.vec[i]]
    IN  [r EXCEPT !.vec = over \o SubSeq(buf, k + 1, Len(buf)),
                  !.seek = r.seek + Len(buf),
                  !.dirty = TRUE]

\* write: bytes overwrite while the cursor is before the end of the buffer, the
\* rest is pushed at the end; dirty is set when at least one byte was written
FileWriteTo(r, buf) ==
    LET k == IF r.seek < Len(r.vec) THEN Min(Len(buf), Len(r.vec) - r.seek) ELSE 0
        over == [i \in 1..Len(r.vec) |->
                    IF i > r.seek /\ i <= r.seek + k THEN buf[i - r.seek] ELSE r.vec[i]]
    IN  [r EXCEPT !.vec = over \o SubSeq(buf, k + 1, Len(buf)),
                  !.seek = r.seek + Len(buf),
                  !.dirty = r.dirty \/ Len(buf) > 0]

\* mutant of SeekTarget: the cursor is clamped to the end of the buffer
SeekTargetClamped(r, pos) ==
    CASE pos.whence = "Start" -> Min(pos.offset, Len(r.vec))
      [] pos.whence = "Current" -> Min(Max(0, r.seek + pos.offset), Len(r.vec))
      [] pos.whence = "End" -> Min(Max(0, Len(r.vec) + pos.offset), Len(r.vec))

\* seek: the new cursor
SeekTarget(r, pos) ==
    CASE pos.whence = "Start" -> pos.offset
      [] pos.whence = "Current" -> Max(0, r.seek + pos.offset)
      [] pos.whence = "End" -> Max(0, Len(r.vec) + pos.offset)

\* mutant of SeekExtend: the buffer is extended by bytes of value 1
SeekExtendByOnes(vec, seek) ==
    IF Len(vec) < seek THEN vec \o [i \in 1..(seek - Len(vec)) |-> 1] ELSE vec

\* mutant of SeekExtend: the buffer is not extended
SeekNoExtend(vec, seek) == vec

\* mutant of SeekExtend: the buffer is cut at a cursor before its end
SeekExtendOrTruncate(vec, seek) ==
    IF Len(vec) < seek THEN vec \o [i \in 1..(seek - Len(vec)) |-> 0]
    ELSE SubSeq(vec, 1, seek)

\* seek: while self.vec.len() < self.seek { self.vec.push(0) }
SeekExtend(vec, seek) ==
    IF Len(vec) < seek THEN vec \o [i \in 1..(seek - Len(vec)) |-> 0] ELSE vec

FileSeekTo(r, pos) ==
    LET seek == SeekTarget(r, pos)
    IN  [r EXCEPT !.seek = seek, !.vec = SeekExtend(r.vec, seek)]

\* sync: pos += size
NextPos(pos, size) == pos + size

\* mutant of SyncResult: sync reports success whatever is left over
SyncResultAlwaysTrue(remaining) == TRUE

\* sync: false when bytes remain after the last extent
SyncResult(remaining) == ~(remaining > 0)

\* mutant of SyncExtents: an extent takes at most the bytes it already has,
\* not the whole of its last sector
RECURSIVE SyncExtentsNoSlack(_, _, _, _)
SyncExtentsNoSlack(vec, g, i, st) ==
    IF i > ExtentSlots THEN st
    ELSE LET extent == st.extents[i]
         IN  IF NonEmpty(extent)
             THEN LET size == Min(st.remaining, extent.length)
                      sectors == (size + 511) \div 512
                  IN  SyncExtentsNoSlack(vec, g, i + 1,
                        [extents |-> [st.extents EXCEPT ![i].length = size],
                         pos |-> NextPos(st.pos, size),
                         remaining |-> st.remaining - size,
                         node_dirty |-> st.node_dirty \/ size # extent.length,
                         disk |-> DiskWriteAll(st.disk, vec, g, st.pos,
                                               ChunkRequests(extent.block, sectors, 0))])
             ELSE SyncExtentsNoSlack(vec, g, i + 1, st)

\* sync, the loop over the extents from slot i on.  st carries the extents,
\* pos, remaining, node_dirty and the disk
RECURSIVE SyncExtents(_, _, _, _)
SyncExtents(vec, g, i, st) ==
    IF i > ExtentSlots THEN st
    ELSE LET extent == st.extents[i]
         IN  IF NonEmpty(extent)
             THEN LET current_sectors == (extent.length + BlockSize - 1) \div BlockSize
                      max_size == current_sectors * 512
                      size == Min(st.remaining, max_size)
                      sectors == (size + 511) \div 512
                  IN  SyncExtents(vec, g, i + 1,
                        [extents |-> [st.extents EXCEPT ![i].length = size],
                         pos |-> NextPos(st.pos, size),
                         remaining |-> st.remaining - size,
                         node_dirty |-> st.node_dirty \/ size # extent.length,
                         disk |-> DiskWriteAll(st.disk, vec, g, st.pos,
                                               ChunkRequests(extent.block, sectors, 0))])
             ELSE SyncExtents(vec, g, i + 1, st)

\* mutant of FileSyncTo: the buffer is written whether or not it is dirty
FileSyncAlways(r, d, nds, dn, g) ==
    IF TRUE
    THEN LET st == SyncExtents(r.vec, g, 1,
                     [extents |-> r.node.extents, pos |-> 0, remaining |-> Len(r.vec),
                      node_dirty |-> FALSE, disk |-> d])
             node == [r.node EXCEPT !.extents = st.extents]
         IN  [file |-> [r EXCEPT !.node = node, !.dirty = FALSE],
              disk |-> st.disk,
              diskNodes |-> IF st.node_dirty
                            THEN [b \in DOMAIN dn |->
                                    IF b = node.block THEN NodeData(node) ELSE dn[b]]
                            ELSE dn,
              nodes |-> IF st.node_dirty
                        THEN [k \in DOMAIN nds |->
                                IF nds[k].block = node.block THEN node ELSE nds[k]]
                        ELSE nds,
              result |-> SyncResult(st.remaining)]
    ELSE [file |-> r, disk |-> d, diskNodes |-> dn, nodes |-> nds, result |-> TRUE]

\* sync of resource r, with the disk d, the node table nds and the node records
\* dn: the resource, the disk, the node records and the node table after it,
\* and what sync returns
FileSyncTo(r, d, nds, dn, g) ==
    IF r.dirty
    THEN LET st == SyncExtents(r.vec, g, 1,
                     [extents |-> r.node.extents, pos |-> 0, remaining |-> Len(r.vec),
                      node_dirty |-> FALSE, disk |-> d])
             node == [r.node EXCEPT !.extents = st.extents]
         IN  [file |-> [r EXCEPT !.node = node, !.dirty = FALSE],
              disk |-> st.disk,
              diskNodes |-> IF st.node_dirty
                            THEN [b \in DOMAIN dn |->
                                    IF b = node.block THEN NodeData(node) ELSE dn[b]]
                            ELSE dn,
              nodes |-> IF st.node_dirty
                        THEN [k \in DOMAIN nds |->
                                IF nds[k].block = node.block THEN node ELSE nds[k]]
                        ELSE nds,
              result |-> SyncResult(st.remaining)]
    ELSE [file |-> r, disk |-> d, diskNodes |-> dn, nodes |-> nds, result |-> TRUE]

\* what sync may do: one outcome for every content of the memory behind the
\* buffer, which the last sector of an extent is filled up from
SyncOutcomes(r, d, nds, dn) == {FileSyncTo(r, d, nds, dn, g) : g \in Garbage}

----------------------------------------------------------------------------
(* The operations on file handles as steps *)

\* the handle the next open or dup gets: the lowest free one, 0 when none is free
FreeHandle ==
    LET free == {h \in Handles : ~files[h].open}
    IN  IF free = {} THEN 0 ELSE CHOOSE h \in free : \A x \in free : h <= x

\* a read, write or seek call on handle h, made on resource r: at and len are
\* the cursor and the length of the buffer when the call is made; for an open
\* call buf is the path
Call(h, op, n, buf, pos, r) ==
    [h |-> h, op |-> op, n |-> n, buf |-> buf, pos |-> pos,
     at |-> r.seek, len |-> Len(r.vec)]

Logged(call) ==
    LET all == Append(flog, call)
    IN  flog' = IF Len(all) > 3 THEN Tail(all) ELSE all

FileFinish(h, op, ok, val, data, was_dirty) ==
    fret' = [h |-> h, op |-> op, ok |-> ok, val |-> val, data |-> data,
             was_dirty |-> was_dirty]

\* FileScheme::open (the scheme exists once a file system is mounted): of a
\* directory path, a resource that holds the listing, which data keeps (it is
\* no FileResource and takes no place in files); of a file path, a
\* FileResource on the node if there is one
FileOpen(h, filename) ==
    LET found == FsNode(nodes, filename)
    IN  /\ nodes # <<>> /\ h = FreeHandle
        /\ UNCHANGED <<tcpVars, codec, io>>
        /\ IF IsDirectory(filename)
           THEN /\ FileFinish(h, "open", TRUE, 0,
                              DirListing(FsList(nodes, filename, 1), 1, <<>>, <<>>),
                              FALSE)
                /\ UNCHANGED files
           ELSE IF found.some
           THEN /\ files' = [files EXCEPT ![h] = Opened(disk, found.val)]
                /\ FileFinish(h, "open", TRUE, 0, <<>>, FALSE)
           ELSE /\ FileFinish(h, "open", FALSE, 0, <<>>, FALSE)
                /\ UNCHANGED files
        /\ flog' = <<Call(h, "open", 0, filename, SeekStart(0), NoFile)>>
        /\ UNCHANGED <<nodes, disk, diskNodes, fops>>

\* mutant of FileDup: the new handle starts at cursor 0
FileDupRewound(h, h2) ==
    /\ files[h].open /\ h2 = FreeHandle
    /\ UNCHANGED <<tcpVars, codec, io>>
    /\ files' = [files EXCEPT ![h2] = [files[h] EXCEPT !.seek = 0]]
    /\ FileFinish(h, "dup", TRUE, 0, <<>>, files[h].dirty)
    /\ flog' = <<>>
    /\ UNCHANGED <<nodes, disk, diskNodes, fops>>

\* dup: the new handle h2 gets a copy of node, buffer, cursor and dirty
FileDup(h, h2) ==
    /\ files[h].open /\ h2 = FreeHandle
    /\ UNCHANGED <<tcpVars, codec, io>>
    /\ files' = [files EXCEPT ![h2] = files[h]]
    /\ FileFinish(h, "dup", TRUE, 0, <<>>, files[h].dirty)
    /\ flog' = <<>>
    /\ UNCHANGED <<nodes, disk, diskNodes, fops>>

FileRead(h, n) ==
    /\ files[h].open /\ fops > 0
    /\ UNCHANGED <<tcpVars, codec, io>>
    /\ files' = [files EXCEPT ![h] = FileReadTo(files[h], n)]
    /\ FileFinish(h, "read", TRUE, ReadCount(files[h], n), FileReadData(files[h], n),
                  files[h].dirty)
    /\ Logged(Call(h, "read", n, <<>>, SeekStart(0), files[h]))
    /\ fops' = fops - 1
    /\ UNCHANGED <<nodes, disk, diskNodes>>

FileWrite(h, buf) ==
    /\ files[h].open /\ fops > 0
    /\ UNCHANGED <<tcpVars, codec, io>>
    /\ files' = [files EXCEPT ![h] = FileWriteTo(files[h], buf)]
    /\ FileFinish(h, "write", TRUE, Len(buf), <<>>, files[h].dirty)
    /\ Logged(Call(h, "write", 0, buf, SeekStart(0), files[h]))
    /\ fops' = fops - 1
    /\ UNCHANGED <<nodes, disk, diskNodes>>

FileSeek(h, pos) ==
    /\ files[h].open /\ fops > 0
    /\ UNCHANGED <<tcpVars, codec, io>>
    /\ files' = [files EXCEPT ![h] = FileSeekTo(files[h], pos)]
    /\ FileFinish(h, "seek", TRUE, SeekTarget(files[h], pos), <<>>, files[h].dirty)
    /\ Logged(Call(h, "seek", 0, <<>>, pos, files[h]))
    /\ fops' = fops - 1
    /\ UNCHANGED <<nodes, disk, diskNodes>>

FileSync(h) ==
    /\ files[h].open
    /\ UNCHANGED <<tcpVars, codec, io>>
    /\ \E after \in SyncOutcomes(files[h], disk, nodes, diskNodes) :
              /\ files' = [files EXCEPT ![h] = after.file]
              /\ disk' = after.disk
              /\ diskNodes' = after.diskNodes
              /\ nodes' = after.nodes
              /\ FileFinish(h, "sync", after.result, 0, <<>>, files[h].dirty)
    /\ UNCHANGED <<fops, flog>>

\* impl Drop for FileResource: sync, its result ignored, and the handle is gone
\* (val keeps what the ignored sync returned: 1 for true, 0 for false)
FileDrop(h) ==
    /\ files[h].open
    /\ UNCHANGED <<tcpVars, codec, io>>
    /\ \E after \in SyncOutcomes(files[h], disk, nodes, diskNodes) :
              /\ files' = [files EXCEPT ![h] = NoFile]
              /\ disk' = after.disk
              /\ diskNodes' = after.diskNodes
              /\ nodes' = after.nodes
              /\ FileFinish(h, "drop", TRUE, IF after.result THEN 1 ELSE 0, <<>>,
                            files[h].dirty)
    /\ flog' = <<>>
    /\ UNCHANGED fops

----------------------------------------------------------------------------
(* Block requests of open and sync, and the contexts that wait for them *)

\* the contexts that call into the file scheme
Contexts == {1, 2}

\* Request { extent, mem, read, complete }, with the context that waits for
\* it; record is the NodeData a node rewrite carries, <<>> for file data
Request(c, read, chunk, record) ==
    [owner |-> c, read |-> read, block |-> chunk.block, length |-> chunk.length,
     mem |-> chunk.mem, record |-> record]

\* a context that holds no resource and runs no call
NoContext ==
    [pc |-> "closed", block |-> 0, extents |-> <<>>, len |-> 0, dirty |-> FALSE,
     i |-> 0, todo |-> <<>>, phase |-> "data", remaining |-> 0,
     node_dirty |-> FALSE, result |-> TRUE, sent |-> <<>>, served |-> 0,
     appends |-> 0, syncs |-> 0]

IoIdle ==
    io = [ctx |-> [c \in Contexts |-> NoContext], queue |-> <<>>,
          block |-> 0, node |-> <<>>, record |-> <<>>]

\* FileScheme::open, file branch, from one wait for a request to the next:
\* for extent in &node.extents, the requests of a non-empty extent, then
\* vec.push_all of its length bytes
RECURSIVE OpenAdvance(_)
OpenAdvance(x) ==
    IF x.todo # <<>> THEN x
    ELSE IF x.i >= Len(x.extents) THEN [x EXCEPT !.pc = "ready", !.dirty = FALSE]
    ELSE LET i == x.i + 1
             extent == x.extents[i]
         IN  IF NonEmpty(extent)
             THEN OpenAdvance([x EXCEPT !.i = i,
                                 !.todo = ChunkRequests(extent.block, Sectors(extent.length), 0),
                                 !.len = @ + extent.length])
             ELSE OpenAdvance([x EXCEPT !.i = i])

\* FileResource::sync from one wait for a request to the next: the extents in
\* order, then the rewrite of the node if node_dirty, then the result
RECURSIVE SyncAdvance(_)
SyncAdvance(x) ==
    IF x.todo # <<>> THEN x
    ELSE IF x.phase = "record" \/ (x.i >= Len(x.extents) /\ ~x.node_dirty)
    THEN [x EXCEPT !.pc = "ready", !.phase = "data", !.dirty = FALSE,
                   !.result = ~(x.remaining > 0)]
    ELSE IF x.i >= Len(x.extents)
    THEN [x EXCEPT !.phase = "record",
                   !.todo = <<[block |-> x.block, length |-> 1, mem |-> 0]>>]
    ELSE LET i == x.i + 1
             extent == x.extents[i]
             max_size == Sectors(extent.length) * 512
             size == Min(x.remaining, max_size)
         IN  IF NonEmpty(extent)
             THEN SyncAdvance([x EXCEPT !.i = i,
                                 !.extents[i].length = size,
                                 !.node_dirty = @ \/ size # extent.length,
                                 !.todo = ChunkRequests(extent.block, Sectors(size), 0),
                                 !.remaining = @ - size])
             ELSE SyncAdvance([x EXCEPT !.i = i])

\* mutant of Submitted: every request that is left is submitted at once
SubmittedAll(c, x, read) ==
    [io EXCEPT !.ctx[c] = [x EXCEPT !.todo = <<>>,
                                    !.sent = @ \o [k \in DOMAIN x.todo |->
                                                    [slot |-> x.i, phase |-> x.phase,
                                                     block |-> x.todo[k].block,
                                                     length |-> x.todo[k].length]]],
               !.queue = @ \o [k \in DOMAIN x.todo |->
                                Request(c, read, x.todo[k],
                                        IF x.phase = "record" THEN x.extents ELSE <<>>)]]

\* disk.request(request.clone()) of the next request of context c, which then
\* waits in while !request.complete { context_switch(false) }; or the return
\* of the call when no request is left
Submitted(c, x, read) ==
    IF x.todo = <<>>
    THEN [io EXCEPT !.ctx[c] = x]
    ELSE LET request == Request(c, read, Head(x.todo),
                                IF x.phase = "record" THEN x.extents ELSE <<>>)
         IN  [io EXCEPT !.ctx[c] = [x EXCEPT !.todo = Tail(@),
                                             !.sent = Append(@, [slot |-> x.i,
                                                                 phase |-> x.phase,
                                                                 block |-> request.block,
                                                                 length |-> request.length])],
                        !.queue = Append(@, request)]

\* the request context c waits for is complete
Complete(c) == \A k \in DOMAIN io.queue : io.queue[k].owner # c

\* "Renode": for node in fs.nodes.iter_mut() { if node.block == self.node.block
\* { *node = self.node.clone() } }
Renode(state, x) == [state EXCEPT !.node = x.extents]

\* FileScheme::open of the file: the node is cloned from fs.nodes, and the
\* call runs to its first request
IoOpen(c) ==
    /\ io.node # <<>>
    /\ io.ctx[c].pc = "closed"
    /\ LET x == OpenAdvance([NoContext EXCEPT !.pc = "open", !.block = io.block,
                                               !.extents = io.node])
       IN  io' = Submitted(c, x, TRUE)
    /\ UNCHANGED <<tcpVars, fileVars, codec>>

\* FileResource::write of a buffer that reaches n bytes beyond the end of vec
IoWrite(c, n) ==
    /\ io.ctx[c].pc = "ready"
    /\ io.ctx[c].appends < MaxAppends
    /\ io' = [io EXCEPT !.ctx[c].len = @ + n, !.ctx[c].dirty = TRUE,
                        !.ctx[c].appends = @ + 1]
    /\ UNCHANGED <<tcpVars, fileVars, codec>>

\* FileResource::sync up to its first request, or to its return
IoSync(c) ==
    /\ io.ctx[c].pc = "ready"
    /\ io.ctx[c].syncs < MaxSyncs
    /\ LET r == io.ctx[c]
           x == IF r.dirty
                THEN SyncAdvance([r EXCEPT !.pc = "sync", !.i = 0, !.phase = "data",
                                           !.remaining = r.len, !.node_dirty = FALSE,
                                           !.sent = <<>>, !.served = 0,
                                           !.syncs = @ + 1])
                ELSE [r EXCEPT !.result = TRUE, !.sent = <<>>, !.served = 0,
                               !.syncs = @ + 1]
       IN  io' = Submitted(c, x, FALSE)
    /\ UNCHANGED <<tcpVars, fileVars, codec>>

\* context c runs again and finds its request complete: the call goes on to
\* its next request or returns
IoResume(c) ==
    /\ io.ctx[c].pc \in {"open", "sync"}
    /\ Complete(c)
    /\ LET r == io.ctx[c]
           x == IF r.pc = "open" THEN OpenAdvance(r) ELSE SyncAdvance(r)
           state == Submitted(c, x, r.pc = "open")
       IN  io' = IF r.phase = "record" THEN Renode(state, r) ELSE state
    /\ UNCHANGED <<tcpVars, fileVars, codec>>

\* the disk serves the oldest request of its queue and sets its complete flag
DiskComplete ==
    /\ io.queue # <<>>
    /\ LET request == Head(io.queue)
       IN  io' = [io EXCEPT !.queue = Tail(@),
                            !.ctx[request.owner].served = @ + 1,
                            !.record = IF request.record # <<>> THEN request.record ELSE @]
    /\ UNCHANGED <<tcpVars, fileVars, codec>>

----------------------------------------------------------------------------
(* Specifications *)

\* no file system is mounted: the state of the file variables in the TCP runs
FileIdle ==
    /\ files = [h \in Handles |-> NoFile]
    /\ nodes = <<>>
    /\ disk = <<>>
    /\ diskNodes = <<>>
    /\ fret = NoFileRet
    /\ fops = 0
    /\ flog = <<>>

\* read buffer sizes and write payloads the callers use
ReadSizes == {2, 5}
WriteBufs == {<<>>, <<4, 5>>}

InitTcp(w, a) ==
    /\ tcp = [e \in Endpoints |-> NoResource]
    /\ tpc = [e \in Endpoints |-> "init"]
    /\ ipIn = [e \in Endpoints |-> <<>>]
    /\ ipOut = [e \in Endpoints |-> <<>>]
    /\ ipOpen = [e \in Endpoints |-> TRUE]
    /\ arg = [e \in Endpoints |-> NoArg]
    /\ ret = [e \in Endpoints |-> NoRet]
    /\ hist = [e \in Endpoints |-> [isn |-> Zero32, written |-> 0, writes |-> 0]]
    /\ taken = [e \in Endpoints |-> [at |-> "init", dgram |-> <<>>]]
    /\ wired = w
    /\ active = a
    /\ envCount = 0
    /\ twin = [e \in Endpoints |-> NoTwin]

TcpStep(e) ==
    \/ \E port \in EphemeralPorts, isn \in ISNs : OpenActive(e, port, isn)
    \/ ClientEstablishRecv(e)
    \/ OpenPassive(e, ListenPort)
    \/ \E isn \in ISNs : ListenRecv(e, isn)
    \/ ServerEstablishRecv(e)
    \/ \E n \in ReadSizes : Read(e, n)
    \/ ReadRecv(e)
    \/ \E buf \in WriteBufs : Write(e, buf)
    \/ WriteRecv(e)
    \/ Drop(e)

\* one endpoint, client or server, against an arbitrary remote peer
TcpInit == FileIdle /\ CodecIdle /\ IoIdle /\ \E e \in Endpoints : InitTcp(FALSE, {e})

TcpNext ==
    \E e \in Endpoints :
        \/ TcpStep(e)
        \/ EnvDeliver(e)
        \/ EnvClose(e)

TcpSpec == TcpInit /\ [][TcpNext]_vars

\* one endpoint that may duplicate its resource and use both
DupNext ==
    \/ TcpNext
    \/ \E e \in Endpoints : TcpDup(e)
    \/ \E e \in Endpoints : Turn(e)

DupSpec == TcpInit /\ [][DupNext]_vars

\* a client and a server of this implementation over an in-order lossless transport
PairInit == FileIdle /\ CodecIdle /\ IoIdle /\ InitTcp(TRUE, Endpoints)

PairNext == \E e \in Endpoints : TcpStep(e)

PairSpec == PairInit /\ [][PairNext]_vars


\* no TCP endpoint runs: the state of the TCP variables in the file runs
TcpIdle == InitTcp(FALSE, {})

\* names are strings of bytes: "f", "g", and "m", which no node has
NameF == <<102>>
NameG == <<103>>
NameMissing == <<109>>

\* The mounted file system: the node table holds the file "f", whose record is
\* in block 2 and whose bytes are 1..5 in block 4 and 6..8 in block 5, with an
\* empty slot between the two extents, and the empty file "g"
FileNodes ==
    <<[block |-> 2, name |-> NameF,
       extents |-> Extents(<<Extent(4, 5), EmptyExtent, Extent(5, 3)>>)],
      [block |-> 3, name |-> NameG, extents |-> Extents(<<>>)]>>

FileDisk ==
    (4 :> Memory(<<1, 2, 3, 4, 5>>, 0, 0, BlockSize)) @@ (5 :> Memory(<<6, 7, 8>>, 0, 0, BlockSize))

\* the paths opened, the buffer sizes read into, the buffers written (nothing,
\* two bytes, more than one sector, one byte more than the file's two sectors)
\* and the positions sought
FileNames == {NameF, NameMissing}
FileReadSizes == {3}
FileWriteBufs ==
    {<<>>, <<65, 66>>, [i \in 1..(BlockSize + 88) |-> i % 251],
     [i \in 1..(2 * BlockSize + 1) |-> i % 251]}
FileSeeks == {SeekStart(1), SeekCurrent(-3), SeekEnd(2)}

\* the file system with node table nds and data sectors d is mounted, no
\* handle is open, and calls read, write and seek calls may be made
MountedWith(nds, d, calls) ==
    /\ TcpIdle /\ CodecIdle /\ IoIdle
    /\ files = [h \in Handles |-> NoFile]
    /\ nodes = nds
    /\ disk = d
    /\ diskNodes = [b \in {nds[i].block : i \in DOMAIN nds} |->
                      NodeData(nds[CHOOSE i \in DOMAIN nds : nds[i].block = b])]
    /\ fret = NoFileRet
    /\ fops = calls
    /\ flog = <<>>

Mounted(calls) == MountedWith(FileNodes, FileDisk, calls)

FileInit == Mounted(MaxFileOps)

FileNext ==
    \E h \in Handles :
        \/ \E filename \in FileNames : FileOpen(h, filename)
        \/ \E h2 \in Handles : FileDup(h, h2)
        \/ \E n \in FileReadSizes : FileRead(h, n)
        \/ \E buf \in FileWriteBufs : FileWrite(h, buf)
        \/ \E pos \in FileSeeks : FileSeek(h, pos)
        \/ FileSync(h)
        \/ FileDrop(h)

\* two handles on the files of one mounted file system
FileSpec == FileInit /\ [][FileNext]_vars


\* the files opened, the buffer sizes read into, the buffers written and the
\* positions sought on the one handle of TripSpec
TripNames == {NameF, NameG}
TripReadSizes == {2, 3}
TripWriteBufs == {<<>>, <<65, 66>>}
TripSeeks == {SeekStart(0), SeekStart(3)}

TripInit == Mounted(MaxTripOps)

TripNext ==
    \/ \E filename \in TripNames : FileOpen(1, filename)
    \/ \E n \in TripReadSizes : FileRead(1, n)
    \/ \E buf \in TripWriteBufs : FileWrite(1, buf)
    \/ \E pos \in TripSeeks : FileSeek(1, pos)

\* one handle on the file "f" or on the empty file "g", read, written and
\* sought a few times in any order
TripSpec == TripInit /\ [][TripNext]_vars

\* the segments built: source ports, sequence numbers, flag bits, options of
\* so many 4-byte words (none, one, the ten that make the longest header the
\* length field can hold, and eleven), payloads
CodecPorts == {EphemeralBase, RemotePort}
CodecSequences == {Word32(0, 5), Max32}
CodecFlagBits == {TCP_SYN, TCP_PSH + TCP_ACK, TCP_FIN + TCP_ACK}
CodecOptionWords == {0, 1, 10, 11}
CodecPayloads == {<<>>, <<7, 8, 9>>}

\* the datagrams received: shorter than a header; of 20 bytes and more with
\* header lengths of 0, 16, 20, 24 and 28 in the flags word
CodecDatagrams ==
    {<<>>, <<1, 2, 3>>, [i \in 1..19 |-> 0]}
      \cup {Datagram(RemotePort, ListenPort, Word32(0, 2000), Word32(0, 3000),
                      EncodeHeaderLen(len) + TCP_ACK, options, data) :
               len \in {0, 16, 20, 24, 28},
               options \in {<<>>, <<1, 1, 1, 1>>},
               data \in {<<>>, <<7>>}}

CodecInit ==
    /\ FileIdle /\ TcpIdle /\ IoIdle
    /\ codec = [pc |-> "start", seg |-> NoSegment, wire |-> <<>>,
                parsed |-> [kind |-> "none"]]

CodecNext ==
    \/ \E src \in CodecPorts, sequence \in CodecSequences, flagbits \in CodecFlagBits,
          words \in CodecOptionWords, data \in CodecPayloads :
            Build(src, sequence, flagbits, words, data)
    \/ Serialize
    \/ \E bytes \in CodecDatagrams : Receive(bytes)
    \/ Parse

\* one segment is built, serialized and parsed, or one datagram is received
\* and parsed
CodecSpec == CodecInit /\ [][CodecNext]_vars

\* The nodes the node tables of OpenSpec are made of: "a/b" with two extents
\* around an empty slot, the empty "a/c", "d" whose first two slots have no
\* block or no length, a second node named "a/b", and a node named "a/"
OpenPool ==
    {[block |-> 2, name |-> <<97, 47, 98>>,
      extents |-> Extents(<<Extent(4, 5), EmptyExtent, Extent(5, 3)>>)],
     [block |-> 3, name |-> <<97, 47, 99>>, extents |-> Extents(<<>>)],
     [block |-> 6, name |-> <<100>>,
      extents |-> Extents(<<Extent(0, 4), Extent(5, 0), Extent(5, 3)>>)],
     [block |-> 7, name |-> <<97, 47, 98>>, extents |-> Extents(<<Extent(5, 2)>>)],
     [block |-> 8, name |-> <<97, 47>>, extents |-> Extents(<<>>)]}

\* the node tables: up to MaxNodes different nodes of the pool in any order
OpenTables ==
    {t \in UNION {[1..n -> OpenPool] : n \in 1..MaxNodes} :
        \A i, j \in DOMAIN t : i # j => t[i] # t[j]}

\* the paths opened: "", "a/", "a/b", "d", "a"
OpenPaths == {<<>>, <<97, 47>>, <<97, 47, 98>>, <<100>>, <<97>>}

OpenInit == \E t \in OpenTables : MountedWith(t, FileDisk, 0)

OpenNext ==
    \E h \in Handles :
        \/ \E path \in OpenPaths : FileOpen(h, path)
        \/ FileDrop(h)

\* files and directories of any of the node tables are opened, and the file
\* handles dropped
OpenSpec == OpenInit /\ [][OpenNext]_vars

\* the buffers written before a handle is released: nothing, two bytes, one
\* byte more than the file's two sectors
ReleaseWriteBufs == {<<>>, <<65, 66>>, [i \in 1..(2 * BlockSize + 1) |-> i % 251]}

ReleaseInit == TcpInit \/ FileInit

\* the file handles are opened, duplicated, written, synced and dropped
ReleaseFileNext ==
    \E h \in Handles :
        \/ FileOpen(h, NameF)
        \/ \E h2 \in Handles : FileDup(h, h2)
        \/ \E buf \in ReleaseWriteBufs : FileWrite(h, buf)
        \/ FileSync(h)
        \/ FileDrop(h)

ReleaseNext == TcpNext \/ ReleaseFileNext

\* the resources of both schemes from creation to destruction: either one TCP
\* endpoint against an arbitrary remote peer, or the handles on a mounted file
\* system
ReleaseSpec == ReleaseInit /\ [][ReleaseNext]_vars

\* the extents of the one file of RequestSpec: short ones, a pair with an
\* empty slot between, and ones of 65535 sectors and more
IoNodes ==
    {<<Extent(10, 100)>>,
     <<Extent(10, 1024), EmptyExtent, Extent(20, 700)>>,
     <<Extent(10, 65535 * 512)>>,
     <<Extent(10, 65536 * 512)>>,
     <<Extent(10, 65537 * 512 - 511)>>,
     <<Extent(10, 131072 * 512)>>}

\* bytes a write reaches beyond the end of the buffer
IoAppends == {0, 20, 600}

\* the file with these extents has its node in block 2, as fs.nodes and the
\* disk hold it, and no context has opened it
RequestInit ==
    /\ FileIdle /\ TcpIdle /\ CodecIdle
    /\ \E extents \in IoNodes :
        io = [ctx |-> [c \in Contexts |-> NoContext], queue |-> <<>>,
              block |-> 2, node |-> extents, record |-> extents]

RequestNext ==
    \/ \E c \in Contexts :
        \/ IoOpen(c)
        \/ \E n \in IoAppends : IoWrite(c, n)
        \/ IoSync(c)
        \/ IoResume(c)
    \/ DiskComplete

\* two contexts open, write and sync the same file, each suspended while a
\* request of its own is in the queue of the disk
RequestSpec == RequestInit /\ [][RequestNext]_vars

\* the disk serves every request in its queue, and a context whose request is
\* complete runs again
FairRequestSpec ==
    /\ RequestSpec
    /\ WF_vars(DiskComplete)
    /\ \A c \in Contexts : WF_vars(IoResume(c))

----------------------------------------------------------------------------
(* TCP: what the claims speak of *)

\* the six flag bits of a flags word, the header length left out
FlagBits(flags) == flags % 64

\* in this step endpoint e read the datagram at the head of its queue
Took(e) == ipIn[e] # <<>> /\ ipIn'[e] = Tail(ipIn[e])

\* seg is a parsed segment addressed to the connection of resource r
ForConnection(r, seg) ==
    seg.kind = "some" /\ seg.dst = r.host_port /\ seg.src = r.peer_port

\* bytes is a segment of e's connection with exactly these flag bits, counters
\* and payload, and no options
IsSegment(e, bytes, flagbits, sequence, ack_num, data) ==
    LET seg == FromBytes(bytes)
    IN  /\ seg.kind = "some"
        /\ seg.src = tcp'[e].host_port /\ seg.dst = tcp'[e].peer_port
        /\ FlagBits(seg.flags) = flagbits
        /\ seg.sequence = sequence /\ seg.ack_num = ack_num
        /\ seg.options = <<>> /\ seg.data = data

\* in this step e handed exactly one datagram to ip.write, the given segment
SentOne(e, flagbits, sequence, ack_num, data) ==
    /\ Len(ipOut'[e]) = Len(ipOut[e]) + 1
    /\ SubSeq(ipOut'[e], 1, Len(ipOut[e])) = ipOut[e]
    /\ IsSegment(e, ipOut'[e][Len(ipOut'[e])], flagbits, sequence, ack_num, data)

Returned(e, op, ok) == ret'[e].op = op /\ ret'[e].ok = ok

\* C4: with a client and a server of this implementation on an in-order
\* lossless transport, whenever both are established and between calls and
\* nothing is in flight, each side's sequence is the number of the next byte it
\* will send (initial sequence + 1 + the bytes of its completed writes) and its
\* acknowledge is the other side's sequence.
PairSynchronized ==
    (/\ tpc["c"] = "idle" /\ tpc["s"] = "idle"
     /\ ipIn["c"] = <<>> /\ ipIn["s"] = <<>>)
    => /\ tcp["c"].sequence = tcp["s"].acknowledge
       /\ tcp["s"].sequence = tcp["c"].acknowledge
       /\ \A e \in Endpoints : tcp[e].sequence = Add32(hist[e].isn, 1 + hist[e].written)

\* a write of two bytes by the client was read by the server and acknowledged
PairSynchronizedWitness ==
    /\ tpc["c"] = "idle" /\ tpc["s"] = "idle"
    /\ ipIn["c"] = <<>> /\ ipIn["s"] = <<>>
    /\ hist["c"].written = 2 /\ hist["c"].isn = Max32
    /\ ret["s"].op = "read" /\ ret["s"].ok /\ ret["s"].val = 2
    /\ ret["c"].op = "write" /\ ret["c"].ok

\* C5: client_establish first sends one SYN carrying the current sequence; on
\* the first segment of the connection, if its flags masked by PSH|SYN|ACK are
\* SYN|ACK, with sequence S and ack_num A, the resource ends with sequence = A
\* and acknowledge = S + 1 (u32), exactly one pure ACK (A, S + 1) is sent and
\* the call returns true.
ClientEstablishSteps ==
    [][\A e \in Endpoints :
         /\ (tpc[e] = "init" /\ tpc'[e] = "client_wait")
              => SentOne(e, TCP_SYN, tcp'[e].sequence, tcp'[e].acknowledge, <<>>)
         /\ (tpc[e] = "client_wait" /\ Took(e)
                /\ ForConnection(tcp[e], FromBytes(Head(ipIn[e])))
                /\ FlagMask(FromBytes(Head(ipIn[e])).flags) = TCP_SYN + TCP_ACK)
              => LET seg == FromBytes(Head(ipIn[e]))
                 IN  /\ tcp'[e].sequence = seg.ack_num
                     /\ tcp'[e].acknowledge = Add32(seg.sequence, 1)
                     /\ tcp'[e].host_port = tcp[e].host_port
                     /\ tcp'[e].peer_port = tcp[e].peer_port
                     /\ SentOne(e, TCP_ACK, seg.ack_num, Add32(seg.sequence, 1), <<>>)
                     /\ Returned(e, "client_establish", TRUE)
                     /\ tpc'[e] = "idle"]_vars

\* the reply S = 1000, A = X + 1 gave sequence = X + 1, acknowledge = 1001
ClientEstablishWitness ==
    \E e \in Endpoints :
        /\ tpc[e] = "idle" /\ taken[e].at = "client_wait"
        /\ ret[e].op = "client_establish" /\ ret[e].ok
        /\ tcp[e].sequence = Add32(hist[e].isn, 1)
        /\ tcp[e].acknowledge = Word32(0, 1001)
        /\ Len(ipOut[e]) = 2

\* C6: on a SYN with sequence P for the listening port, the resource is built
\* and server_establish sets acknowledge = P + 1 (u32) and sends one SYN|ACK
\* with the resource's sequence and ack_num P + 1, having read nothing more;
\* on the first segment of the connection, if its masked flags are ACK, the
\* resource ends with sequence = its ack_num and acknowledge = its sequence
\* and the call returns true, nothing more being sent.
ServerEstablishSteps ==
    [][\A e \in Endpoints :
         /\ (tpc[e] = "listen" /\ tpc'[e] = "server_wait")
              => LET syn == FromBytes(Head(ipIn[e]))
                 IN  /\ Took(e)
                     /\ tcp'[e].acknowledge = Add32(syn.sequence, 1)
                     /\ tcp'[e].peer_port = syn.src
                     /\ tcp'[e].host_port = syn.dst
                     /\ SentOne(e, TCP_SYN + TCP_ACK, tcp'[e].sequence,
                                Add32(syn.sequence, 1), <<>>)
         /\ (tpc[e] = "server_wait" /\ Took(e)
                /\ ForConnection(tcp[e], FromBytes(Head(ipIn[e])))
                /\ FlagMask(FromBytes(Head(ipIn[e])).flags) = TCP_ACK)
              => LET seg == FromBytes(Head(ipIn[e]))
                 IN  /\ tcp'[e].sequence = seg.ack_num
                     /\ tcp'[e].acknowledge = seg.sequence
                     /\ ipOut'[e] = ipOut[e]
                     /\ Returned(e, "server_establish", TRUE)
                     /\ tpc'[e] = "idle"]_vars

\* a server resource built from a SYN with sequence 2^32 - 1 answered with
\* ack_num 0 and was established by an ACK
ServerEstablishWitness ==
    \E e \in Endpoints :
        /\ tpc[e] = "idle" /\ taken[e].at = "server_wait"
        /\ ret[e].op = "server_establish" /\ ret[e].ok
        /\ tcp[e].sequence = Word32(0, 3000)
        /\ tcp[e].acknowledge = Word32(U16 - 1, U16 - 2)
        /\ Len(ipOut[e]) = 1
        /\ FromBytes(ipOut[e][1]).ack_num = Zero32


\* the four wait loops of a resource
WaitLoops == {"client_wait", "server_wait", "read_wait", "write_wait"}

\* C7: in every wait loop a segment whose dst_port is not host_port or whose
\* src_port is not peer_port changes neither counter, has nothing sent, does
\* not end the operation; and datagrams are taken from the transport oldest
\* first.
NonMatchingDiscarded ==
    [][\A e \in Endpoints :
         /\ (tpc[e] \in WaitLoops /\ Took(e)
                /\ FromBytes(Head(ipIn[e])).kind = "some"
                /\ (FromBytes(Head(ipIn[e])).dst # tcp[e].host_port
                      \/ FromBytes(Head(ipIn[e])).src # tcp[e].peer_port))
              => /\ tcp'[e] = tcp[e]
                 /\ ipOut'[e] = ipOut[e]
                 /\ tpc'[e] = tpc[e]
                 /\ ret'[e] = ret[e]
         /\ ipIn'[e] # ipIn[e]
              => \/ ipIn[e] # <<>> /\ ipIn'[e] = Tail(ipIn[e])
                 \/ /\ Len(ipIn'[e]) > Len(ipIn[e])
                    /\ SubSeq(ipIn'[e], 1, Len(ipIn[e])) = ipIn[e]]_vars

\* a write is still waiting after it read an ACK that came from another
\* source port
NonMatchingWitness ==
    \E e \in Endpoints :
        /\ tpc[e] = "write_wait" /\ taken[e].at = "write_wait"
        /\ FromBytes(taken[e].dgram).kind = "some"
        /\ FromBytes(taken[e].dgram).src # tcp[e].peer_port
        /\ FromBytes(taken[e].dgram).dst = tcp[e].host_port
        /\ FlagMask(FromBytes(taken[e].dgram).flags) = TCP_ACK

\* C8: read(buf) on the first segment of the connection whose masked flags are
\* PSH|ACK, with sequence S, ack_num A and L payload bytes: sequence = A,
\* acknowledge = S + L (u32), exactly one pure ACK (A, S + L) is sent, the
\* first min(buf.len(), L) payload bytes are returned with that count, and
\* the datagram is gone from the transport, so no later read sees its rest.
ReadSteps ==
    [][\A e \in Endpoints :
         /\ (tpc[e] = "read_wait" /\ Took(e)
                /\ ForConnection(tcp[e], FromBytes(Head(ipIn[e])))
                /\ FlagMask(FromBytes(Head(ipIn[e])).flags) = TCP_PSH + TCP_ACK)
              => LET seg == FromBytes(Head(ipIn[e]))
                     n == Min(arg[e].n, Len(seg.data))
                 IN  /\ tcp'[e].sequence = seg.ack_num
                     /\ tcp'[e].acknowledge = Add32(seg.sequence, Len(seg.data))
                     /\ SentOne(e, TCP_ACK, seg.ack_num,
                                Add32(seg.sequence, Len(seg.data)), <<>>)
                     /\ Returned(e, "read", TRUE)
                     /\ ret'[e].val = n
                     /\ ret'[e].data = SubSeq(seg.data, 1, n)
                     /\ tpc'[e] = "idle"
         /\ (tpc[e] = "read_wait" /\ tpc'[e] = "idle" /\ ret'[e].ok)
              => /\ ret'[e].op = "read" /\ Took(e)
                 /\ ret'[e].data
                      = SubSeq(FromBytes(Head(ipIn[e])).data, 1, ret'[e].val)]_vars

\* a read into a 2-byte buffer took a segment with 3 payload bytes and
\* sequence 2^32 - 2: 2 bytes returned, acknowledge wrapped to 1
ReadWitness ==
    \E e \in Endpoints :
        /\ tpc[e] = "idle" /\ taken[e].at = "read_wait"
        /\ ret[e].op = "read" /\ ret[e].ok /\ ret[e].val = 2
        /\ ret[e].data = <<7, 8>>
        /\ Len(FromBytes(taken[e].dgram).data) = 3
        /\ tcp[e].acknowledge = Word32(0, 1)

\* C9 as claimed: write(buf) sends exactly one PSH|ACK with the whole buf and
\* the current sequence/acknowledge; on the first segment of the connection
\* afterwards, if its masked flags are ACK, sequence = its ack_num,
\* acknowledge = its sequence and write returns buf.len().
WriteSteps ==
    [][\A e \in Endpoints :
         /\ (tpc[e] = "idle" /\ tpc'[e] = "write_wait")
              => SentOne(e, TCP_PSH + TCP_ACK, tcp[e].sequence, tcp[e].acknowledge,
                         arg'[e].buf)
         /\ (tpc[e] = "write_wait" /\ Took(e)
                /\ ForConnection(tcp[e], FromBytes(Head(ipIn[e])))
                /\ FlagMask(FromBytes(Head(ipIn[e])).flags) = TCP_ACK)
              => LET seg == FromBytes(Head(ipIn[e]))
                 IN  /\ tcp'[e].sequence = seg.ack_num
                     /\ tcp'[e].acknowledge = seg.sequence
                     /\ ipOut'[e] = ipOut[e]
                     /\ Returned(e, "write", TRUE)
                     /\ ret'[e].val = Len(arg[e].buf)
                     /\ tpc'[e] = "idle"]_vars

\* the expected masked flags of each wait loop
Awaited(pc) ==
    CASE pc = "client_wait" -> TCP_SYN + TCP_ACK
      [] pc = "server_wait" -> TCP_ACK
      [] pc = "read_wait" -> TCP_PSH + TCP_ACK
      [] pc = "write_wait" -> TCP_ACK

\* in this step e, in the wait loop pc, read a segment of its connection whose
\* masked flags are not the ones the loop waits for
TookUnexpected(e) ==
    /\ tpc[e] \in WaitLoops /\ Took(e)
    /\ ForConnection(tcp[e], FromBytes(Head(ipIn[e])))
    /\ FlagMask(FromBytes(Head(ipIn[e])).flags) # Awaited(tpc[e])

\* the operation of e ends in this step with a failure
Fails(e) == tpc'[e] # tpc[e] /\ ~ret'[e].ok

\* C10 as claimed: in each of the four loops a segment of the connection with
\* other flags than the awaited ones makes the operation fail.
UnexpectedFlagsFail ==
    [][\A e \in Endpoints : TookUnexpected(e) => Fails(e)]_vars

\* C10, amended: such a segment makes client_establish, server_establish and
\* write fail, the counters staying as they were; read discards it and goes
\* on waiting.
UnexpectedFlagsFailOrSkip ==
    [][\A e \in Endpoints :
         TookUnexpected(e)
           => IF tpc[e] = "read_wait"
              THEN /\ tpc'[e] = "read_wait" /\ ret'[e] = ret[e]
                   /\ tcp'[e] = tcp[e] /\ ipOut'[e] = ipOut[e]
              ELSE /\ Fails(e) /\ tcp'[e] = tcp[e]
                   /\ ret'[e].op = CASE tpc[e] = "client_wait" -> "client_establish"
                                     [] tpc[e] = "server_wait" -> "server_establish"
                                     [] tpc[e] = "write_wait" -> "write"]_vars

\* a read is still waiting after it took a pure ACK of its connection
UnexpectedFlagsWitness ==
    \E e \in Endpoints :
        /\ taken[e].at = "read_wait" /\ tpc[e] = "read_wait"
        /\ ForConnection(tcp[e], FromBytes(taken[e].dgram))
        /\ FlagMask(FromBytes(taken[e].dgram).flags) = TCP_ACK

----------------------------------------------------------------------------
(* Files: what the claims speak of *)

\* the first extent.length bytes on disk from extent.block on
DiskPrefix(extent) ==
    [k \in 1..extent.length |->
        disk[extent.block + (k - 1) \div BlockSize][((k - 1) % BlockSize) + 1]]

\* from slot i on, every non-empty extent of r's node holds on disk the slice
\* of r's buffer that starts at offset off and continues extent by extent
RECURSIVE OnDiskFrom(_, _, _)
OnDiskFrom(r, i, off) ==
    IF i > ExtentSlots THEN TRUE
    ELSE LET extent == r.node.extents[i]
         IN  IF NonEmpty(extent)
             THEN /\ off + extent.length <= Len(r.vec)
                  /\ DiskPrefix(extent) = SubSeq(r.vec, off + 1, off + extent.length)
                  /\ OnDiskFrom(r, i + 1, off + extent.length)
             ELSE OnDiskFrom(r, i + 1, off)

\* the sector-rounded capacity of the non-empty extents from slot i on
RECURSIVE Capacity(_, _)
Capacity(extents, i) ==
    IF i > ExtentSlots THEN 0
    ELSE (IF NonEmpty(extents[i]) THEN Sectors(extents[i].length) * BlockSize ELSE 0)
            + Capacity(extents, i + 1)

\* every slot of after has the block it has in before
SameBlocks(before, after) == \A i \in 1..ExtentSlots : after[i].block = before[i].block

\* no slot of after is a new extent compared with before
NoNewExtent(before, after) ==
    /\ SameBlocks(before, after)
    /\ \A i \in 1..ExtentSlots : ~NonEmpty(before[i]) => ~NonEmpty(after[i])

\* the last operation was sync on an open handle
Synced == fret.op = "sync" /\ fret.h \in Handles

\* C1: on every open file handle, after any sequence of read, write, seek,
\* sync and dup, the cursor is at most the length of the buffer.
CursorWithinBuffer ==
    \A h \in Handles : files[h].open => files[h].seek <= Len(files[h].vec)

\* a seek behind the end of the eight-byte file has extended the buffer, and
\* the cursor stands at its end
CursorWithinBufferWitness ==
    /\ fret.op = "seek" /\ fret.h \in Handles
    /\ files[fret.h].seek = Len(files[fret.h].vec)
    /\ Len(files[fret.h].vec) > 8

\* C2: whenever sync returns true on a handle, one obtained by dup or by a
\* second open of the node included, its dirty is false and every non-empty
\* extent of its node, in slot order, holds on disk the consecutive slice of
\* its buffer.
SyncTrueOnDisk ==
    (Synced /\ fret.ok) => /\ ~files[fret.h].dirty
                          /\ OnDiskFrom(files[fret.h], 1, 0)

\* What sync does establish: when it returns true on a handle that was dirty
\* at the call, dirty is false and every non-empty extent of the handle's node
\* holds on disk the consecutive slice of the handle's buffer.
SyncOfDirtyOnDisk ==
    (Synced /\ fret.ok /\ fret.was_dirty) => /\ ~files[fret.h].dirty
                                            /\ OnDiskFrom(files[fret.h], 1, 0)

\* a dirty buffer of more than one sector was synced into two extents
SyncOfDirtyWitness ==
    /\ Synced /\ fret.ok /\ fret.was_dirty
    /\ Len(files[fret.h].vec) > BlockSize
    /\ Cardinality({i \in 1..ExtentSlots : NonEmpty(files[fret.h].node.extents[i])}) = 2

\* C3: a sync of a dirty handle whose buffer is longer than the sector-rounded
\* capacity of its node's non-empty extents returns false, leaves dirty false,
\* makes no empty slot of its node non-empty and changes no extent's block, in
\* its node, in the node table and in the node records on disk.
SyncOverCapacity ==
    [][\A h \in Handles :
          (/\ fret'.op = "sync" /\ fret'.h = h
           /\ files[h].open /\ files[h].dirty
           /\ Len(files[h].vec) > Capacity(files[h].node.extents, 1))
          => /\ ~fret'.ok
             /\ ~files'[h].dirty
             /\ NoNewExtent(files[h].node.extents, files'[h].node.extents)
             /\ \A k \in DOMAIN nodes :
                    SameBlocks(nodes[k].extents, nodes'[k].extents)
             /\ \A b \in DOMAIN diskNodes :
                    SameBlocks(diskNodes[b].extents, diskNodes'[b].extents)]_vars

\* a buffer of more than the file's two sectors was synced: false, dirty cleared
SyncOverCapacityWitness ==
    /\ Synced /\ ~fret.ok /\ fret.was_dirty
    /\ ~files[fret.h].dirty
    /\ Len(files[fret.h].vec) > 2 * BlockSize

----------------------------------------------------------------------------
(* TCP: how the wait loops end *)

\* in this step the wait loop of e ends
LoopEnds(e) == tpc[e] \in WaitLoops /\ tpc'[e] # tpc[e]

\* the loop ends because the operation succeeds on a datagram it read
EndsInSuccess(e) == Took(e) /\ tpc'[e] = "idle" /\ ret'[e].ok

\* the loop ends because ip.read_to_end returned None
EndsOnClosedTransport(e) == ipIn[e] = <<>> /\ ~ipOpen[e] /\ ~ret'[e].ok

\* the loop of client_establish, server_establish or write ends in failure on
\* a segment of the connection with other flags than the awaited ones
EndsOnUnexpectedFlags(e) ==
    tpc[e] # "read_wait" /\ TookUnexpected(e) /\ Fails(e)

\* the loop ends because parsing the datagram it read crashes
EndsInCrash(e) ==
    Took(e) /\ FromBytes(Head(ipIn[e])).kind = "panic" /\ tpc'[e] = "panic"

\* C11 as claimed: a wait loop ends only when the operation succeeds or when
\* the read on the ip handle returns None.
LoopEndsTwoWays ==
    [][\A e \in Endpoints :
          LoopEnds(e) => EndsInSuccess(e) \/ EndsOnClosedTransport(e)]_vars

\* C11, amended: a wait loop ends only when the operation succeeds, when the
\* read on the ip handle returns None, when (in client_establish,
\* server_establish and write) a segment of the connection carries other flags
\* than the awaited ones, or when parsing a datagram crashes; on every other
\* datagram the loop goes on.
LoopEndsFourWays ==
    [][\A e \in Endpoints :
          LoopEnds(e) => \/ EndsInSuccess(e)
                         \/ EndsOnClosedTransport(e)
                         \/ EndsOnUnexpectedFlags(e)
                         \/ EndsInCrash(e)]_vars

\* a write has failed on an open transport: the segment it read in its loop
\* was one of its connection with flags other than a pure ACK
LoopEndsWitness ==
    \E e \in Endpoints :
        /\ tpc[e] = "idle" /\ ipOpen[e]
        /\ ret[e].op = "write" /\ ~ret[e].ok
        /\ taken[e].at = "write_wait"
        /\ ForConnection(tcp[e], FromBytes(taken[e].dgram))
        /\ FlagMask(FromBytes(taken[e].dgram).flags) # TCP_ACK

----------------------------------------------------------------------------
(* Both schemes: the release of a destroyed resource *)

\* in this step the TCP resource of e is destroyed: an established one is
\* dropped by its owner, or Scheme::open drops the one whose client_establish
\* or server_establish returned false
Destroys(e) ==
    \/ tpc[e] \in {"init", "client_wait", "idle"} /\ tpc'[e] = "gone"
    \/ tpc[e] = "server_wait" /\ tpc'[e] = "listen"
    \/ tpc[e] = "listen" /\ tpc'[e] = "listen" /\ ipOut'[e] # ipOut[e]

\* the datagrams e hands to ip.write in this step
Handed(e) == SubSeq(ipOut'[e], Len(ipOut[e]) + 1, Len(ipOut'[e]))

\* the positions of the FIN|ACK segments among them
FinAcks(e) ==
    {i \in DOMAIN Handed(e) :
        FlagBits(FromBytes(Handed(e)[i]).flags) = TCP_FIN + TCP_ACK}

\* in this step the file handle h is destroyed
FileDestroys(h) == files[h].open /\ ~files'[h].open

\* C12: a TCP resource that is destroyed (dropped by its owner, also after
\* failed reads and writes, or dropped inside Scheme::open after a failed
\* client_establish or server_establish) hands exactly one FIN|ACK segment to
\* ip.write, the last datagram it sends, carrying its current sequence and
\* acknowledge, and reads no reply; no FIN|ACK is sent at any other time.  A
\* file handle that is destroyed has sync applied to it, and is gone whatever
\* sync returned.
ReleasedOnce ==
    [][/\ \A e \in Endpoints :
             IF Destroys(e)
             THEN /\ Cardinality(FinAcks(e)) = 1
                  /\ Len(Handed(e)) \in FinAcks(e)
                  /\ IsSegment(e, Handed(e)[Len(Handed(e))], TCP_FIN + TCP_ACK,
                               tcp'[e].sequence, tcp'[e].acknowledge, <<>>)
                  /\ tpc[e] \in {"client_wait", "server_wait", "idle"}
                         => tcp'[e] = tcp[e]
                  /\ ~Took(e) \/ tpc[e] # "idle"
                  /\ tpc'[e] \notin WaitLoops
             ELSE FinAcks(e) = {}
       /\ \A h \in Handles :
             FileDestroys(h) =>
                 \E after \in SyncOutcomes(files[h], disk, nodes, diskNodes) :
                     /\ disk' = after.disk
                     /\ diskNodes' = after.diskNodes
                     /\ nodes' = after.nodes
                     /\ files' = [files EXCEPT ![h] = NoFile]]_vars

\* a resource whose write failed on a segment with unexpected flags has been
\* dropped: its FIN|ACK is the last datagram it handed to ip.write
ReleasedOnceWitness ==
    \E e \in Endpoints :
        /\ tpc[e] = "gone" /\ ret[e].op = "write" /\ ~ret[e].ok
        /\ ipOut[e] # <<>>
        /\ FlagBits(FromBytes(ipOut[e][Len(ipOut[e])]).flags) = TCP_FIN + TCP_ACK
        /\ FromBytes(ipOut[e][Len(ipOut[e])]).ack_num = tcp[e].acknowledge
        /\ tcp[e].acknowledge # Zero32

----------------------------------------------------------------------------
(* File handles: sequences of calls *)

\* this step is a read, write or seek call
FileCalls == fops' = fops - 1

\* this step is the read that ends a sequence write(buf); seek(pos); read(out)
\* of consecutive calls on one handle with out.len() = buf.len()
WriteSeekRead ==
    /\ FileCalls /\ Len(flog') = 3
    /\ flog'[1].op = "write" /\ flog'[2].op = "seek" /\ flog'[3].op = "read"
    /\ flog'[2].h = flog'[1].h /\ flog'[3].h = flog'[1].h
    /\ flog'[3].n = Len(flog'[1].buf)

\* the read returns buf.len() and leaves buf in out
ReadsBack == fret'.val = Len(flog'[1].buf) /\ fret'.data = flog'[1].buf

\* C13 as claimed: on a file handle in any state, write(buf); seek(Start, 0);
\* read(out) with out.len() = buf.len() returns buf.len() and leaves out
\* equal to buf.
WriteThenReadFromStart ==
    [][WriteSeekRead /\ flog'[2].pos = SeekStart(0) => ReadsBack]_vars

\* C13, amended: on a file handle in any state with its cursor at c,
\* write(buf); seek(Start, c); read(out) with out.len() = buf.len() returns
\* buf.len() and leaves out equal to buf, both when buf fits into the buffer
\* behind c and when the write extends the buffer; seek(Start, 0) does so for
\* a handle whose cursor was 0.
WriteThenReadFromCursor ==
    [][WriteSeekRead /\ flog'[2].pos = SeekStart(flog'[1].at) => ReadsBack]_vars

\* a handle with its cursor at 3 was written two bytes, sought back to 3 and
\* read two bytes
WriteThenReadWitness ==
    /\ Len(flog) = 3 /\ fret.op = "read" /\ fret.h = flog[1].h
    /\ flog[1].op = "write" /\ flog[1].at = 3 /\ flog[1].buf = <<65, 66>>
    /\ flog[2].op = "seek" /\ flog[2].h = flog[1].h /\ flog[2].pos = SeekStart(3)
    /\ flog[3].op = "read" /\ flog[3].h = flog[1].h /\ flog[3].n = 2
    /\ fret.data = <<65, 66>>

\* n bytes of value zero
Zeros(n) == [i \in 1..n |-> 0]

\* the call before the last one of this step was seek(Start, N), made on the
\* same handle when its buffer was empty
AfterSeekOnEmpty(k) ==
    /\ flog'[k].op = "seek" /\ flog'[k].pos.whence = "Start" /\ flog'[k].len = 0
    /\ flog'[k].h = flog'[Len(flog')].h

\* C14 as claimed: on a file handle whose buffer is empty, seek(Start, N)
\* extends the buffer to N zero bytes and the read of N bytes that follows
\* returns N bytes, all zero.
SeekOnEmptyThenRead ==
    [][(/\ FileCalls /\ Len(flog') >= 2
        /\ flog'[Len(flog')].op = "read"
        /\ AfterSeekOnEmpty(Len(flog') - 1)
        /\ flog'[Len(flog')].n = flog'[Len(flog') - 1].pos.offset)
       => /\ fret'.val = flog'[Len(flog')].n
          /\ fret'.data = Zeros(flog'[Len(flog')].n)]_vars

\* C14, amended: on a file handle whose buffer is empty, seek(Start, N)
\* returns N, extends the buffer to N zero bytes and leaves the cursor at N,
\* the end of the buffer; a read that follows it returns 0 bytes; after a
\* further seek(Start, 0), a read of N bytes returns N bytes, all zero.
SeekOnEmptyExtends ==
    [][FileCalls =>
        LET k == Len(flog')
            h == flog'[k].h
        IN  /\ (flog'[k].op = "seek" /\ AfterSeekOnEmpty(k))
                => /\ fret'.val = flog'[k].pos.offset
                   /\ files'[h].vec = Zeros(flog'[k].pos.offset)
                   /\ files'[h].seek = flog'[k].pos.offset
            /\ (k >= 2 /\ flog'[k].op = "read" /\ AfterSeekOnEmpty(k - 1))
                => fret'.val = 0 /\ fret'.data = <<>>
            /\ (/\ k = 3 /\ flog'[3].op = "read" /\ AfterSeekOnEmpty(1)
                /\ flog'[2].op = "seek" /\ flog'[2].h = h
                /\ flog'[2].pos = SeekStart(0)
                /\ flog'[3].n = flog'[1].pos.offset)
                => /\ fret'.val = flog'[3].n
                   /\ fret'.data = Zeros(flog'[3].n)]_vars

\* the empty file was sought to 3, sought back to 0 and read: three zero bytes
SeekOnEmptyWitness ==
    /\ Len(flog) = 3 /\ fret.op = "read" /\ fret.h = flog[1].h
    /\ flog[1].op = "seek" /\ flog[1].pos = SeekStart(3) /\ flog[1].len = 0
    /\ flog[2].op = "seek" /\ flog[2].pos = SeekStart(0)
    /\ flog[3].op = "read" /\ flog[3].n = 3
    /\ fret.val = 3 /\ fret.data = <<0, 0, 0>>

----------------------------------------------------------------------------
(* FileScheme::open *)

\* the sum of the lengths of the non-empty extents from slot i on
RECURSIVE UsedLength(_, _)
UsedLength(extents, i) ==
    IF i > ExtentSlots THEN 0
    ELSE (IF extents[i].block > 0 /\ extents[i].length > 0
          THEN extents[i].length ELSE 0)
            + UsedLength(extents, i + 1)

\* this step is the call open(path), which gets handle h if it opens a file
OpenCalled(h, path) ==
    /\ Len(flog') = 1 /\ flog'[1].op = "open"
    /\ flog'[1].h = h /\ flog'[1].buf = path
    /\ fret'.op = "open" /\ fret'.h = h

\* the places in the node table of the nodes named path
Named(path) == {i \in DOMAIN nodes : nodes[i].name = path}

----------------------------------------------------------------------------
(* FileScheme::open of a directory: the listing *)

\* the last call was open of a directory path, and fret.data is its listing
Listed ==
    /\ fret.op = "open" /\ fret.ok
    /\ Len(flog) = 1 /\ flog[1].op = "open"
    /\ flog[1].buf = <<>> \/ flog[1].buf[Len(flog[1].buf)] = Slash

\* the lines of a text: what stands between its newlines, nothing for the
\* empty text
RECURSIVE Lines(_)
Lines(text) ==
    IF text = <<>> THEN <<>>
    ELSE LET breaks == {i \in DOMAIN text : text[i] = Newline}
         IN  IF breaks = {} THEN <<text>>
             ELSE LET b == CHOOSE i \in breaks : \A j \in breaks : i <= j
                      rest == SubSeq(text, b + 1, Len(text))
                  IN  <<SubSeq(text, 1, b - 1)>>
                        \o (IF rest = <<>> THEN <<<<>>>> ELSE Lines(rest))

\* an entry names a file (no '/') or a directory (one '/', at its end)
IsFileEntry(entry) == entry # <<>> /\ \A i \in DOMAIN entry : entry[i] # Slash
IsDirEntry(entry) ==
    /\ entry # <<>> /\ entry[Len(entry)] = Slash
    /\ \A i \in 1..(Len(entry) - 1) : entry[i] # Slash

\* C16 as claimed: the listing of a directory has no entry twice, and every
\* entry contains no '/' or ends with '/'.
ListingNoEntryTwice ==
    Listed =>
        LET entries == Lines(fret.data)
        IN  /\ \A i, j \in DOMAIN entries : i # j => entries[i] # entries[j]
            /\ \A i \in DOMAIN entries :
                  IsFileEntry(entries[i]) \/ IsDirEntry(entries[i])

\* What holds of every node table: the listing of a directory has no entry
\* that ends with '/' twice; an entry without '/' appears once for every node
\* whose name is the directory path followed by the entry, hence once if the
\* names of the node table differ; every entry contains no '/' or ends with
\* its only '/'.
ListingNoDirTwice ==
    Listed =>
        LET entries == Lines(fret.data)
        IN  /\ \A i, j \in DOMAIN entries :
                  (i # j /\ IsDirEntry(entries[i])) => entries[i] # entries[j]
            /\ \A i \in DOMAIN entries :
                  IsFileEntry(entries[i]) =>
                      Cardinality({j \in DOMAIN entries : entries[j] = entries[i]})
                        = Cardinality(Named(flog[1].buf \o entries[i]))
            /\ \A i \in DOMAIN entries :
                  IsFileEntry(entries[i]) \/ IsDirEntry(entries[i])

\* the root of a table with two or more nodes below "a/" was listed: "a/" is
\* in the listing once
ListingWitness ==
    /\ Listed /\ flog[1].buf = <<>>
    /\ Cardinality({i \in DOMAIN nodes : StartsWith(nodes[i].name, <<97, 47>>)}) >= 2
    /\ Cardinality({i \in DOMAIN Lines(fret.data) :
                        Lines(fret.data)[i] = <<97, 47>>}) = 1

\* what the node at place i of the node table gives to the listing of p: its
\* name without p, cut behind the first '/' if there is one
Remainder(p, i) == SubSeq(nodes[i].name, Len(p) + 1, Len(nodes[i].name))
Collapsed(p, i) ==
    LET slashes == {k \in DOMAIN Remainder(p, i) : Remainder(p, i)[k] = Slash}
    IN  IF slashes = {} THEN Remainder(p, i)
        ELSE SubSeq(Remainder(p, i), 1,
                    CHOOSE k \in slashes : \A m \in slashes : k <= m)

\* the entries of the listing of p from place i of the node table on: of the
\* nodes whose names start with p, in the order of the table, the collapsed
\* remainder, a directory only where it comes first; an empty remainder is an
\* entry only if keepEmpty
RECURSIVE Entries(_, _, _)
Entries(p, i, keepEmpty) ==
    IF i > Len(nodes) THEN <<>>
    ELSE LET under == /\ Len(nodes[i].name) >= Len(p)
                      /\ SubSeq(nodes[i].name, 1, Len(p)) = p
             entry == Collapsed(p, i)
             earlier == \E j \in 1..(i - 1) :
                           /\ Len(nodes[j].name) >= Len(p)
                           /\ SubSeq(nodes[j].name, 1, Len(p)) = p
                           /\ Collapsed(p, j) = entry
             emitted == /\ under
                        /\ entry # <<>> \/ keepEmpty
                        /\ ~(entry # <<>> /\ entry[Len(entry)] = Slash /\ earlier)
         IN  (IF emitted THEN <<entry>> ELSE <<>>) \o Entries(p, i + 1, keepEmpty)

\* entries joined by newline
RECURSIVE Joined(_)
Joined(entries) ==
    IF entries = <<>> THEN <<>>
    ELSE IF Len(entries) = 1 THEN entries[1]
    ELSE entries[1] \o <<Newline>> \o Joined(Tail(entries))

\* C17 as claimed: the listing for prefix p is, in the order of the node
\* table, of each node whose name starts with p the name with p stripped,
\* collapsed to its first path component and '/' if it contains '/', a
\* collapsed directory entry only at its first occurrence, joined by newline.
ListingOfEveryNode ==
    Listed => fret.data = Joined(Entries(flog[1].buf, 1, TRUE))

\* C17, amended: as claimed, except that a node whose name is p itself, whose
\* remainder is empty, contributes nothing to the listing.
ListingOfNodesBelow ==
    Listed => fret.data = Joined(Entries(flog[1].buf, 1, FALSE))

\* the table "a/b", "a/c", "d" listed with the empty prefix: "a/", then "d"
ListingOfNodesWitness ==
    /\ Listed /\ flog[1].buf = <<>>
    /\ Len(nodes) = 3
    /\ nodes[1].name = <<97, 47, 98>> /\ nodes[2].name = <<97, 47, 99>>
    /\ nodes[3].name = <<100>>
    /\ fret.data = <<97, 47, Newline, 100>>

----------------------------------------------------------------------------
(* The TCP segment codec *)

\* a segment was built, and the bytes it was serialized to have been handed
\* to the parser
BuiltAndParsed == codec.pc \in {"parsed", "panic"} /\ codec.seg # NoSegment

\* C18: the bytes a segment with empty options (whose header length field
\* says 20 bytes) is serialized to, with any payload, are parsed to a segment
\* with the same header fields, the same (empty) options and the same payload.
SerializedParsesBack ==
    (/\ BuiltAndParsed
     /\ codec.seg.options = <<>>
     /\ (codec.seg.flags \div 4096) * 4 = HeaderSize)
    => /\ codec.parsed.kind = "some"
       /\ codec.parsed.src = codec.seg.src
       /\ codec.parsed.dst = codec.seg.dst
       /\ codec.parsed.sequence = codec.seg.sequence
       /\ codec.parsed.ack_num = codec.seg.ack_num
       /\ codec.parsed.flags = codec.seg.flags
       /\ codec.parsed.window_size = codec.seg.window_size
       /\ codec.parsed.checksum = codec.seg.checksum
       /\ codec.parsed.urgent_pointer = codec.seg.urgent_pointer
       /\ codec.parsed.options = codec.seg.options
       /\ codec.parsed.data = codec.seg.data

\* a PSH|ACK segment without options, with sequence number 2^32 - 1, a
\* checksum and three bytes of payload has gone through both conversions
SerializedParsesBackWitness ==
    /\ codec.pc = "parsed"
    /\ codec.seg.options = <<>> /\ codec.seg.data = <<7, 8, 9>>
    /\ codec.seg.sequence = Max32 /\ codec.seg.checksum # 0
    /\ codec.seg.flags % 64 = TCP_PSH + TCP_ACK
    /\ codec.parsed.kind = "some" /\ codec.parsed.data = <<7, 8, 9>>
    /\ codec.parsed.sequence = Max32

\* C19 as claimed: for every options length K that is a multiple of 4, the
\* header length 20 + K written into the flags word as (header_bytes << 10) &
\* 0xF000 is read back from it as (flags & 0xF000) >> 10.
HeaderLenReadBack ==
    codec.seg # NoSegment =>
        DecodeHeaderLen(codec.seg.flags) = HeaderSize + Len(codec.seg.options)

\* C19, amended: for every options length K that is a multiple of 4 and at
\* most 40, the header length 20 + K (at most 60, the largest the four bits
\* hold) written into the flags word is read back from it; a longer header
\* is not (64 bytes are read back as 0).
HeaderLenReadBackTo60 ==
    codec.seg # NoSegment =>
        /\ Len(codec.seg.options) <= 40
              => DecodeHeaderLen(codec.seg.flags) = HeaderSize + Len(codec.seg.options)
        /\ Len(codec.seg.options) = 44 => DecodeHeaderLen(codec.seg.flags) = 0

\* a segment with 40 bytes of options was built, serialized and parsed: the
\* parser took 40 bytes of options from it
HeaderLenReadBackWitness ==
    /\ codec.pc = "parsed"
    /\ Len(codec.seg.options) = 40
    /\ codec.parsed.kind = "some"
    /\ codec.parsed.options = codec.seg.options
    /\ codec.parsed.data = codec.seg.data /\ codec.seg.data # <<>>

\* the header length in the flags word of the bytes handed to the parser
WireHeaderLen == ((codec.wire[13] * 256 + codec.wire[14]) \div 4096) * 4

\* C20: parsing a received byte sequence does not crash, and gives None when
\* the sequence is shorter than 20 bytes, when the header length in its flags
\* word is less than 20, and when that header length is more than the bytes
\* received.
ParseRejectsMalformed ==
    /\ codec.pc # "panic"
    /\ (/\ codec.pc = "parsed_received"
        /\ \/ Len(codec.wire) < HeaderSize
           \/ WireHeaderLen < HeaderSize
           \/ WireHeaderLen > Len(codec.wire))
       => codec.parsed.kind = "none"

----------------------------------------------------------------------------
(* Block requests: what the claims speak of *)

\* the requests context c has submitted for the data of extent slot in its
\* running or latest call, in the order of submission
ChunksOf(c, slot) ==
    SelectSeq(io.ctx[c].sent, LAMBDA q : q.slot = slot /\ q.phase = "data")

\* the sectors the first k of these requests transfer together
RECURSIVE SectorsOf(_, _)
SectorsOf(chunks, k) ==
    IF k = 0 THEN 0 ELSE SectorsOf(chunks, k - 1) + Sectors(chunks[k].length)

\* every request of extent slot of context c has been submitted
Transferred(c, slot) ==
    LET x == io.ctx[c]
    IN  x.pc = "ready" \/ x.i > slot \/ (x.i = slot /\ x.todo = <<>>)

\* C21: the requests issued for an extent by open or sync are consecutive
\* chunks that do not overlap, none of more than 65535 sectors, and together
\* they cover exactly the ceil(length/512) sectors of the extent
ChunksCoverExtent ==
    \A c \in Contexts : \A slot \in DOMAIN io.ctx[c].extents :
        LET chunks == ChunksOf(c, slot)
            extent == io.ctx[c].extents[slot]
        IN  /\ \A k \in DOMAIN chunks :
                /\ Sectors(chunks[k].length) <= 65535
                /\ chunks[k].block = extent.block + SectorsOf(chunks, k - 1)
            /\ (Transferred(c, slot) /\ chunks # <<>>) =>
                    SectorsOf(chunks, Len(chunks)) = Sectors(extent.length)

\* the requests of context c in the queue of the disk
Outstanding(c) == {k \in DOMAIN io.queue : io.queue[k].owner = c}

\* context c is inside open or sync
InCall(c) == io.ctx[c].pc \in {"open", "sync"}

\* in this step context c submits a request
Submits(c) == Len(io'.ctx[c].sent) > 0 /\ io'.ctx[c].sent # io.ctx[c].sent

\* in this step the disk serves a request of context c
Serves(c) == io'.ctx[c].served = io.ctx[c].served + 1

\* C25: in open and sync a caller has at most one block request outstanding:
\* the next request is submitted, or the call returns, only when the request
\* before it is complete; the requests of one caller reach the disk in the
\* order of their submission; and when the disk completes every request and
\* suspended callers run again, open and sync return.
OneRequestAtATime ==
    /\ [](\A c \in Contexts : Cardinality(Outstanding(c)) <= 1)
    /\ [][\A c \in Contexts :
            /\ (InCall(c) /\ (Submits(c) \/ ~InCall(c)')) => Complete(c)
            /\ Submits(c) => Outstanding(c) = {}
            /\ Serves(c) =>
                  LET request == Head(io.queue)
                      sent == io.ctx[c].sent[io.ctx[c].served + 1]
                  IN  /\ request.owner = c
                      /\ request.block = sent.block
                      /\ request.length = sent.length]_vars
    /\ \A c \in Contexts : InCall(c) ~> ~InCall(c)

\* a sync of three requests (two for the 65536 sectors of the extent, one
\* for the node) has returned while the other context waits inside its own
OneRequestWitness ==
    \E c, other \in Contexts :
        /\ io.ctx[c].pc = "ready" /\ io.ctx[c].syncs = 1
        /\ Len(io.ctx[c].sent) = 3 /\ io.ctx[c].served = 3
        /\ io.ctx[other].pc = "sync" /\ Outstanding(other) # {}

\* C26: the updates of fs.nodes by sync are serialised: when the contexts
\* have run sync on resources of the same node, suspended at the yield points
\* of sync, then once all the calls have returned the entry of fs.nodes for
\* the block is the node record last written to that block on disk.
NodeListFollowsDisk ==
    (\A c \in Contexts : ~InCall(c)) => io.node = io.record

----------------------------------------------------------------------------
(* TCP: passive open and the lifecycle of a resource *)

\* the listening loop of e accepts this datagram: a segment for the local
\* port whose flags masked by PSH|SYN|ACK are SYN
Accepted(e, bytes) ==
    LET seg == FromBytes(bytes)
    IN  seg.kind = "some" /\ seg.dst = arg[e].n /\ FlagMask(seg.flags) = TCP_SYN

\* C22: passive open discards every datagram that is not a SYN for the local
\* port and keeps listening; for an accepted SYN from port q with sequence P
\* the resource has host_port = local port, peer_port = q and acknowledge
\* P + 1 once server_establish has sent its SYN|ACK; and a resource is
\* returned only when server_establish has returned true.
PassiveOpenSteps ==
    [][\A e \in Endpoints :
         /\ (tpc[e] = "listen" /\ Took(e) /\ ~Accepted(e, Head(ipIn[e])))
              => /\ tpc'[e] = "listen"
                 /\ ipOut'[e] = ipOut[e]
                 /\ ret'[e] = ret[e]
         /\ (tpc[e] = "listen" /\ Took(e) /\ Accepted(e, Head(ipIn[e])))
              => LET syn == FromBytes(Head(ipIn[e]))
                 IN  /\ tcp'[e].host_port = arg[e].n
                     /\ tcp'[e].peer_port = syn.src
                     /\ tcp'[e].acknowledge = Add32(syn.sequence, 1)
                     /\ tpc'[e] \in {"server_wait", "listen"}
         /\ (tpc[e] \in {"listen", "server_wait"} /\ tpc'[e] = "idle")
              => Returned(e, "server_establish", TRUE)]_vars

\* the state of the connection of e in the lifecycle of a resource; a passive
\* open that listens has no resource yet
Stage(p) ==
    CASE p \in {"init", "listen"} -> "CLOSED"
      [] p = "client_wait" -> "SYN_SENT"
      [] p = "server_wait" -> "SYN_RCVD"
      [] p \in {"idle", "read_wait", "write_wait"} -> "ESTABLISHED"
      [] p = "gone" -> "FIN_WAIT"
      [] OTHER -> "CRASHED"

\* the moves of the lifecycle
Lifecycle ==
    {<<"CLOSED", "SYN_SENT">>, <<"CLOSED", "SYN_RCVD">>,
     <<"SYN_SENT", "ESTABLISHED">>, <<"SYN_RCVD", "ESTABLISHED">>,
     <<"ESTABLISHED", "FIN_WAIT">>}

\* in this step the state of e's connection changes; a passive open that
\* gives up before any resource exists is no move of a resource
Moves(e) ==
    /\ Stage(tpc'[e]) # Stage(tpc[e])
    /\ ~(tpc[e] = "listen" /\ tpc'[e] = "gone")

\* the flag bits of the i-th datagram e hands to ip.write in this step
HandedBits(e, i) == FlagBits(FromBytes(Handed(e)[i]).flags)

\* PSH|ACK segments are sent by established resources only, and pure ACKs by
\* established resources and by the client_establish that succeeds
DataAfterHandshake(e) ==
    \A i \in DOMAIN Handed(e) :
        /\ HandedBits(e, i) = TCP_PSH + TCP_ACK => Stage(tpc[e]) = "ESTABLISHED"
        /\ HandedBits(e, i) = TCP_ACK =>
              \/ Stage(tpc[e]) = "ESTABLISHED"
              \/ tpc[e] = "client_wait" /\ tpc'[e] = "idle"

\* C23, as stated: every resource moves CLOSED -> SYN_SENT or SYN_RCVD ->
\* ESTABLISHED -> FIN_WAIT without skipping a state; data segments and data
\* ACKs are sent only after the handshake succeeded, a FIN|ACK only by a
\* resource that reached ESTABLISHED, and nothing after the FIN|ACK.
LifecycleNoSkip ==
    [][\A e \in Endpoints :
         /\ Moves(e) => <<Stage(tpc[e]), Stage(tpc'[e])>> \in Lifecycle
         /\ DataAfterHandshake(e)
         /\ \A i \in FinAcks(e) :
               Stage(tpc[e]) = "ESTABLISHED" /\ i = Len(Handed(e))
         /\ Stage(tpc[e]) = "FIN_WAIT" => Handed(e) = <<>>]_vars

\* C23, amended: a resource moves along CLOSED -> SYN_SENT or SYN_RCVD ->
\* ESTABLISHED -> FIN_WAIT, except that a resource whose client_establish or
\* server_establish returns false is destroyed from CLOSED, SYN_SENT or
\* SYN_RCVD without having been established (passive open then listens
\* again), and that a process that parses a malformed segment crashes in any
\* state.  Data segments and data ACKs are sent only after the handshake
\* succeeded; a FIN|ACK is sent by every resource that is destroyed,
\* established or not, as its last segment, and nothing is sent after it.
LifecycleOrFailedHandshake ==
    [][\A e \in Endpoints :
         /\ Moves(e) =>
              \/ <<Stage(tpc[e]), Stage(tpc'[e])>> \in Lifecycle
              \/ /\ <<Stage(tpc[e]), Stage(tpc'[e])>> \in
                        {<<"CLOSED", "FIN_WAIT">>, <<"SYN_SENT", "FIN_WAIT">>}
                 /\ Returned(e, "client_establish", FALSE)
              \/ /\ <<Stage(tpc[e]), Stage(tpc'[e])>> = <<"SYN_RCVD", "CLOSED">>
                 /\ Returned(e, "server_establish", FALSE)
              \/ Stage(tpc'[e]) = "CRASHED" /\ Took(e)
                    /\ FromBytes(Head(ipIn[e])).kind = "panic"
         /\ DataAfterHandshake(e)
         /\ \A i \in FinAcks(e) : Destroys(e) /\ i = Len(Handed(e))
         /\ Destroys(e) => FinAcks(e) # {}
         /\ Stage(tpc[e]) \in {"FIN_WAIT", "CRASHED"} => Handed(e) = <<>>]_vars

\* a client whose SYN was answered by a segment of its connection with
\* unexpected flags: it sent its SYN and then its FIN|ACK, and was never
\* established
LifecycleWitness ==
    \E e \in Endpoints :
        /\ tpc[e] = "gone" /\ taken[e].at = "client_wait"
        /\ ret[e].op = "client_establish" /\ ~ret[e].ok
        /\ Len(ipOut[e]) = 2
        /\ FlagBits(FromBytes(ipOut[e][1]).flags) = TCP_SYN
        /\ FlagBits(FromBytes(ipOut[e][2]).flags) = TCP_FIN + TCP_ACK

----------------------------------------------------------------------------
(* File handles: sync, seek, write and dup call by call *)

\* the extents after the walk the claim describes, from slot i on with
\* remaining bytes of the buffer left
RECURSIVE Walked(_, _, _)
Walked(extents, i, remaining) ==
    IF i > Len(extents) THEN extents
    ELSE IF NonEmpty(extents[i])
    THEN LET room == ((extents[i].length + 511) \div 512) * 512
             size == IF remaining < room THEN remaining ELSE room
         IN  Walked([extents EXCEPT ![i].length = size], i + 1, remaining - size)
    ELSE Walked(extents, i + 1, remaining)

\* this step is a call of sync on handle h
SyncCalled(h) == fret'.op = "sync" /\ fret'.h = h

\* the example of the claim: a node in block 2 with the single extent
\* {block 10, length 1024} and a dirty buffer of 100 bytes
SyncExample ==
    LET node == [block |-> 2, name |-> NameF,
                 extents |-> Extents(<<Extent(10, 1024)>>)]
        r == [open |-> TRUE, node |-> node, vec |-> [i \in 1..100 |-> i],
              seek |-> 0, dirty |-> TRUE]
        d == (10 :> Memory(<<>>, 0, 0, BlockSize)) @@ (11 :> Memory(<<>>, 0, 0, BlockSize))
    IN  FileSyncTo(r, d, <<node>>, 2 :> NodeData(node), 0)

ThisCall == flog'[Len(flog')]

\* this step is a call of op on some handle
Calls(op) == FileCalls /\ ThisCall.op = op

\* C27: seek sets the cursor to offset (Start), max(0, cursor + offset)
\* (Current) or max(0, buffer length + offset) (End), with no bound from
\* above; a cursor beyond the end of the buffer has the buffer extended by
\* zero bytes up to it, the bytes it had staying as they are; the new cursor
\* is returned and dirty stays as it was.
SeekSteps ==
    [][Calls("seek") =>
         LET h == ThisCall.h
             offset == ThisCall.pos.offset
             whence == ThisCall.pos.whence
             old == files[h].vec
             new == files'[h].vec
             cursor == IF whence = "Start" THEN offset
                       ELSE IF whence = "Current"
                       THEN (IF files[h].seek + offset > 0
                             THEN files[h].seek + offset ELSE 0)
                       ELSE (IF Len(old) + offset > 0 THEN Len(old) + offset ELSE 0)
         IN  /\ files'[h].seek = cursor
             /\ fret'.op = "seek" /\ fret'.ok /\ fret'.val = cursor
             /\ Len(new) = IF cursor > Len(old) THEN cursor ELSE Len(old)
             /\ SubSeq(new, 1, Len(old)) = old
             /\ \A i \in (Len(old) + 1)..Len(new) : new[i] = 0
             /\ files'[h].dirty = files[h].dirty
             /\ files'[h].node = files[h].node]_vars

\* seek(End, 2) on the clean eight-byte file: the cursor 10 is returned, the
\* buffer has two zero bytes more and the handle is still clean
SeekStepsWitness ==
    \E h \in Handles :
        /\ fret.op = "seek" /\ fret.h = h /\ fret.val = 10
        /\ flog # <<>> /\ flog[Len(flog)].pos = SeekEnd(2) /\ flog[Len(flog)].len = 8
        /\ files[h].seek = 10
        /\ files[h].vec = <<1, 2, 3, 4, 5, 6, 7, 8, 0, 0>>
        /\ ~files[h].dirty

\* what the write call of this step does to the buffer and the cursor of its
\* handle, and what it returns: the bytes of buf lie from the old cursor on,
\* over the bytes the buffer had there and beyond its old end, every other
\* byte is as it was, the cursor has advanced by buf.len(), which is returned
WriteCopies ==
    LET h == ThisCall.h
        buf == ThisCall.buf
        at == files[h].seek
        old == files[h].vec
        new == files'[h].vec
    IN  /\ Len(new) = IF at + Len(buf) > Len(old) THEN at + Len(buf) ELSE Len(old)
        /\ \A i \in 1..Len(new) :
              new[i] = IF i > at /\ i <= at + Len(buf) THEN buf[i - at] ELSE old[i]
        /\ files'[h].seek = at + Len(buf)
        /\ fret'.op = "write" /\ fret'.ok /\ fret'.val = Len(buf)

\* C28, as stated: write(buf), for every buf including the empty one,
\* overwrites from the cursor to the old end of the buffer, appends the rest,
\* advances the cursor by buf.len(), returns buf.len(), leaves the bytes
\* before the old cursor unchanged, and sets dirty.
WriteSetsDirty ==
    [][Calls("write") => (WriteCopies /\ files'[ThisCall.h].dirty)]_vars

\* C28, amended: write(buf) overwrites from the cursor to the old end of the
\* buffer, appends the rest, advances the cursor by buf.len(), returns
\* buf.len() and leaves the bytes before the old cursor unchanged; it sets
\* dirty when buf is not empty, and leaves dirty as it was when buf is empty.
WriteSetsDirtyUnlessEmpty ==
    [][Calls("write") =>
         /\ WriteCopies
         /\ files'[ThisCall.h].dirty = (files[ThisCall.h].dirty \/ Len(ThisCall.buf) > 0)]_vars

\* a write of the empty buffer at cursor 3 of the clean eight-byte file
\* returned 0 and left buffer, cursor and dirty as they were
WriteEmptyWitness ==
    /\ fret.op = "write" /\ fret.val = 0 /\ ~fret.was_dirty
    /\ flog # <<>> /\ flog[Len(flog)].op = "write" /\ flog[Len(flog)].buf = <<>>
    /\ flog[Len(flog)].at = 3
    /\ ~files[fret.h].dirty
    /\ files[fret.h].seek = 3
    /\ files[fret.h].vec = <<1, 2, 3, 4, 5, 6, 7, 8>>

\* in this step dup of a handle opened the handle h2
Dupped(h2) == fret'.op = "dup" /\ ~files[h2].open /\ files'[h2].open

\* C29: dup returns a resource with the node, the cursor and the dirty flag
\* of the one it is called on and a copy of its buffer, which it leaves as it
\* is; from then on a read, write or seek on one of the two changes neither
\* the cursor nor the buffer nor the dirty flag of the other.
DupIsIndependent ==
    [][/\ \A h2 \in Handles :
            Dupped(h2) => /\ files'[h2].node = files[fret'.h].node
                          /\ files'[h2].seek = files[fret'.h].seek
                          /\ files'[h2].dirty = files[fret'.h].dirty
                          /\ files'[h2].vec = files[fret'.h].vec
                          /\ files'[fret'.h] = files[fret'.h]
       /\ FileCalls => \A other \in Handles \ {ThisCall.h} :
                          files'[other] = files[other]]_vars

\* a handle was sought to cursor 1 and duplicated, and a write of two bytes
\* on one of the two left the other at cursor 1, clean, with the eight bytes
\* of the file
DupIsIndependentWitness ==
    \E h, other \in Handles :
        /\ h # other /\ files[h].open /\ files[other].open
        /\ Len(flog) = 1 /\ flog[1].op = "write" /\ flog[1].h = h /\ flog[1].at = 1
        /\ files[h].vec = <<1, 65, 66, 4, 5, 6, 7, 8>>
        /\ files[h].seek = 3 /\ files[h].dirty
        /\ files[other].vec = <<1, 2, 3, 4, 5, 6, 7, 8>>
        /\ files[other].seek = 1 /\ ~files[other].dirty

\* C30: the buffer of a file resource never gets shorter: no read, write,
\* seek or sync call (nor a dup of it) leaves a handle that stays open with
\* fewer bytes than it had, so it never has fewer than at open.
BufferNeverShrinks ==
    [][\A h \in Handles :
         (files[h].open /\ files'[h].open) =>
             Len(files'[h].vec) >= Len(files[h].vec)]_vars

\* the eight-byte file was overwritten from its start with a buffer of more
\* than one sector and synced: the buffer has kept its new length
BufferNeverShrinksWitness ==
    \E h \in Handles :
        /\ fret.op = "sync" /\ fret.h = h /\ fret.was_dirty
        /\ files[h].open /\ ~files[h].dirty
        /\ Len(files[h].vec) = BlockSize + 88
        /\ Len(flog) = 2 /\ flog[2].op = "write" /\ flog[2].len = 8

\* C31: sync of a handle that is not dirty writes nothing to the disk,
\* changes neither the extents of its node nor fs.nodes, and returns true:
\* so does the sync that follows a sync which returned false, though the end
\* of the buffer was never written, and the sync or the drop of a handle
\* whose buffer was extended by seek only.
CleanSyncDoesNothing ==
    [][\A h \in Handles :
         /\ (SyncCalled(h) /\ ~files[h].dirty) =>
                /\ fret'.ok
                /\ disk' = disk /\ diskNodes' = diskNodes /\ nodes' = nodes
                /\ files' = files
         /\ (FileDestroys(h) /\ ~files[h].dirty) =>
                disk' = disk /\ diskNodes' = diskNodes /\ nodes' = nodes]_vars

\* a buffer one byte longer than the two sectors of the file was synced,
\* which left it clean, and the next sync returned true: the node still has
\* room for 1024 of the 1025 bytes only
CleanSyncWitness ==
    \E h \in Handles :
        /\ fret.op = "sync" /\ fret.h = h /\ fret.ok /\ ~fret.was_dirty
        /\ files[h].open /\ ~files[h].dirty
        /\ Len(files[h].vec) = 2 * BlockSize + 1
        /\ Capacity(files[h].node.extents, 1) = 2 * BlockSize

----------------------------------------------------------------------------
(* TCP: flags, failures and simultaneous writes *)

\* the PSH, SYN and ACK bits of a flags word, whatever its other bits are
PshSynAck(flags) ==
    LET bit(b) == (flags \div (2 ^ b)) % 2
    IN  2 * bit(1) + 8 * bit(3) + 16 * bit(4)

\* in this step e, in one of its wait loops, takes a segment of its
\* connection
TakesMatching(e) ==
    /\ tpc[e] \in WaitLoops /\ Took(e)
    /\ ForConnection(tcp[e], FromBytes(Head(ipIn[e])))

\* C32, as stated: FIN and RST bits are ignored by every wait loop, a
\* segment of the connection flagged RST|ACK or FIN|ACK is accepted as a pure
\* ACK is (write and server_establish succeed on it), and a reset or close
\* of the peer never makes an operation fail.
ResetNeverFails ==
    [][\A e \in Endpoints :
         (TakesMatching(e)
            /\ FlagBits(FromBytes(Head(ipIn[e])).flags) \in
                  {TCP_RST + TCP_ACK, TCP_FIN + TCP_ACK})
         => /\ tpc[e] \in {"server_wait", "write_wait"} => tpc'[e] = "idle" /\ ret'[e].ok
            /\ tpc'[e] # tpc[e] => ret'[e].ok]_vars

\* C32, amended: what a wait loop does with a segment of the connection depends on
\* its PSH, SYN and ACK bits only: client_establish succeeds exactly on
\* SYN|ACK, server_establish and write exactly on ACK, read exactly on
\* PSH|ACK, whatever the FIN and RST bits are; a segment flagged RST|ACK or
\* FIN|ACK makes write and server_establish succeed as a pure ACK does,
\* read goes on waiting after it, and client_establish fails on it as it
\* does on a pure ACK.
OnlyPshSynAckCount ==
    [][\A e \in Endpoints :
         TakesMatching(e) =>
            LET seg == FromBytes(Head(ipIn[e]))
                bits == PshSynAck(seg.flags)
                succeeds == tpc'[e] = "idle" /\ ret'[e].ok
            IN  /\ tpc[e] = "client_wait" => (succeeds <=> bits = TCP_SYN + TCP_ACK)
                /\ tpc[e] = "server_wait" => (succeeds <=> bits = TCP_ACK)
                /\ tpc[e] = "write_wait" => (succeeds <=> bits = TCP_ACK)
                /\ tpc[e] = "read_wait" =>
                      IF bits = TCP_PSH + TCP_ACK THEN succeeds
                      ELSE tpc'[e] = "read_wait" /\ ret'[e] = ret[e]
                /\ (FlagBits(seg.flags) \in {TCP_RST + TCP_ACK, TCP_FIN + TCP_ACK}
                      /\ tpc[e] \in {"server_wait", "write_wait"}) => succeeds
                /\ (FlagBits(seg.flags) \in {TCP_RST + TCP_ACK, TCP_FIN + TCP_ACK}
                      /\ tpc[e] = "client_wait") =>
                        tpc'[e] = "gone" /\ Returned(e, "client_establish", FALSE)]_vars

\* a write was acknowledged by a segment flagged RST|ACK and returned Some
ResetTakenAsAckWitness ==
    \E e \in Endpoints :
        /\ tpc[e] = "idle" /\ taken[e].at = "write_wait"
        /\ ret[e].op = "write" /\ ret[e].ok
        /\ FlagBits(FromBytes(taken[e].dgram).flags) = TCP_RST + TCP_ACK
        /\ tcp[e].sequence = FromBytes(taken[e].dgram).ack_num

\* the first segment e hands to ip.write in this step, or has handed to it
\* before when it hands none now
FirstSent(e) == FromBytes((ipOut'[e])[1])

\* C33: when read, write or client_establish fails, on a closed transport, a
\* failed send or unexpected flags, sequence, acknowledge, peer_port and
\* host_port of the resource are what they were before the call: the entry
\* of read and write changes none of them, no turn of a loop that does not
\* end in success changes any, and the resource of a failed client_establish
\* still has the sequence its SYN carried and acknowledge 0.
CountersKeptOnFailure ==
    [][\A e \in Endpoints :
         /\ (tpc[e] = "idle" /\ tpc'[e] \in {"idle", "read_wait", "write_wait"})
                => tcp'[e] = tcp[e]
         /\ (tpc[e] \in {"read_wait", "write_wait", "client_wait"}
                /\ ~(tpc'[e] = "idle" /\ ret'[e].ok))
                => tcp'[e] = tcp[e]
         /\ (tpc[e] \in {"init", "client_wait"} /\ tpc'[e] = "gone")
                => /\ Returned(e, "client_establish", FALSE)
                   /\ FlagBits(FirstSent(e).flags) = TCP_SYN
                   /\ tcp'[e].sequence = FirstSent(e).sequence
                   /\ tcp'[e].acknowledge = Zero32
                   /\ tcp'[e].host_port = FirstSent(e).src
                   /\ tcp'[e].peer_port = FirstSent(e).dst]_vars

\* a write has failed on a PSH|ACK segment of its connection, whose numbers
\* the resource has not taken over
CountersKeptWitness ==
    \E e \in Endpoints :
        /\ tpc[e] = "idle" /\ taken[e].at = "write_wait"
        /\ ret[e].op = "write" /\ ~ret[e].ok
        /\ FlagBits(FromBytes(taken[e].dgram).flags) = TCP_PSH + TCP_ACK
        /\ tcp[e].sequence # FromBytes(taken[e].dgram).ack_num
        /\ tcp[e].acknowledge # FromBytes(taken[e].dgram).sequence



----------------------------------------------------------------------------
(* TCP: the duplicate of a resource *)

\* in this step the owner of e's two resources turns from one to the other
Turned(e) ==
    /\ twin[e].pc # "none"
    /\ twin'[e] = [pc |-> tpc[e], r |-> tcp[e]]
    /\ tcp'[e] = twin[e].r /\ tpc'[e] = twin[e].pc

\* in this step the resource of e that is in use is dropped while the other
\* one exists
DropsOneOfTwo(e) ==
    /\ twin[e].pc # "none" /\ ~Turned(e)
    /\ tpc[e] = "idle" /\ tpc'[e] = "gone"

\* C34: dup yields a second resource of the same connection (address and
\* ports) with a copy of sequence and acknowledge and sends nothing; a read,
\* a write or a drop on one resource leaves the counters of the other as they
\* were; and each of the two resources hands its own FIN|ACK, with its own
\* counters, to ip.write when it is dropped, also while the other resource
\* is still in use
DupCopiesCounters ==
    [][\A e \in Endpoints :
          /\ (twin[e].pc = "none" /\ twin'[e].pc # "none") =>
                 /\ twin'[e].pc = "idle"
                 /\ twin'[e].r.sequence = tcp[e].sequence
                 /\ twin'[e].r.acknowledge = tcp[e].acknowledge
                 /\ twin'[e].r.peer_addr = tcp[e].peer_addr
                 /\ twin'[e].r.peer_port = tcp[e].peer_port
                 /\ twin'[e].r.host_port = tcp[e].host_port
                 /\ tcp'[e] = tcp[e] /\ tpc[e] = "idle" /\ tpc'[e] = "idle"
                 /\ ipOut'[e] = ipOut[e] /\ ipIn'[e] = ipIn[e]
          /\ (twin[e].pc # "none" /\ ~Turned(e)) => twin'[e] = twin[e]
          /\ DropsOneOfTwo(e) =>
                 /\ Len(Handed(e)) = 1
                 /\ IsSegment(e, Handed(e)[1], TCP_FIN + TCP_ACK,
                              tcp[e].sequence, tcp[e].acknowledge, <<>>)
      ]_vars

\* both resources of an endpoint were dropped after a write on one of them moved
\* its sequence: the last two datagrams handed to ip.write are two FIN|ACK
\* segments of the same connection with different sequence numbers
DupWitness ==
    \E e \in Endpoints :
        /\ tpc[e] = "gone" /\ twin[e].pc = "gone"
        /\ tcp[e].sequence # twin[e].r.sequence
        /\ Len(ipOut[e]) >= 2
        /\ LET n == Len(ipOut[e])
               a == FromBytes(ipOut[e][n - 1])
               b == FromBytes(ipOut[e][n])
           IN  /\ FlagBits(a.flags) = TCP_FIN + TCP_ACK
               /\ FlagBits(b.flags) = TCP_FIN + TCP_ACK
               /\ a.src = b.src /\ a.dst = b.dst
               /\ a.sequence = twin[e].r.sequence
               /\ b.sequence = tcp[e].sequence

----------------------------------------------------------------------------
(* TCP: two writes that cross *)

\* the datagram at the head of e's queue is a PSH|ACK segment of the connection
\* that its peer sent and that carries the peer's sequence
PeersPushAhead(e) ==
    /\ ipIn[e] # <<>>
    /\ LET seg == FromBytes(Head(ipIn[e]))
       IN  /\ seg.kind = "some"
           /\ PshSynAck(seg.flags) = TCP_PSH + TCP_ACK
           /\ seg.src = tcp[Peer(e)].host_port /\ seg.dst = tcp[Peer(e)].peer_port
           /\ seg.src = tcp[e].peer_port /\ seg.dst = tcp[e].host_port
           /\ seg.sequence = tcp[Peer(e)].sequence

\* e is in the loop of write and its peer's PSH|ACK is the next datagram it takes
HoldsPeersPush(e) == tpc[e] = "write_wait" /\ PeersPushAhead(e)

\* in this step e calls write while its peer is in write and the segment the
\* peer's write sent has not been taken: the two writes are made at the same
\* time
WritesCross(e) ==
    /\ tpc[e] = "idle" /\ tpc'[e] = "write_wait"
    /\ tpc[Peer(e)] = "write_wait"
    /\ PeersPushAhead(e)
    /\ FromBytes(Head(ipIn[e])).data = arg[Peer(e)].buf

\* C35: when both endpoints of an established connection call write at the
\* same time (the second call is made before the first one's segment is
\* taken), each has the other's PSH|ACK segment as the next datagram of its
\* queue; an endpoint waiting in write that takes the other's PSH|ACK returns
\* None, sends nothing and keeps its sequence and acknowledge, and no write is
\* counted as done; the segment is gone from the queue, and a read returns
\* data only from a segment its own loop takes, so the payload reaches no
\* reader
CrossedWritesFail ==
    [][\A e \in Endpoints :
          /\ WritesCross(e) =>
                 /\ tpc'[Peer(e)] = "write_wait"
                 /\ ipIn'[e] = ipIn[e]
                 /\ ipIn'[Peer(e)] # <<>>
                 /\ LET seg == FromBytes(Head(ipIn'[Peer(e)]))
                    IN  /\ seg.kind = "some"
                        /\ PshSynAck(seg.flags) = TCP_PSH + TCP_ACK
                        /\ seg.src = tcp[e].host_port /\ seg.dst = tcp[e].peer_port
                        /\ seg.sequence = tcp[e].sequence
          /\ (HoldsPeersPush(e) /\ tpc'[e] # tpc[e]) =>
                 /\ tpc'[e] = "idle"
                 /\ ret'[e].op = "write" /\ ~ret'[e].ok
                 /\ tcp'[e] = tcp[e] /\ tcp'[Peer(e)] = tcp[Peer(e)]
                 /\ hist'[e].written = hist[e].written
                 /\ Handed(e) = <<>>
                 /\ ipIn'[e] = Tail(ipIn[e])
          /\ (tpc[e] = "read_wait" /\ tpc'[e] = "idle" /\ ret'[e].ok) =>
                 /\ Took(e)
                 /\ ret'[e].data # <<>> => taken'[e].at = "read_wait"
      ]_vars

\* both endpoints wrote at the same time and both writes have returned None:
\* each took the other's PSH|ACK with its payload in the loop of write, the
\* queues are empty, nothing was acknowledged and the counters are those the
\* handshake left
CrossedWritesWitness ==
    /\ \A e \in Endpoints :
          /\ tpc[e] = "idle" /\ ret[e].op = "write" /\ ~ret[e].ok
          /\ taken[e].at = "write_wait"
          /\ PshSynAck(FromBytes(taken[e].dgram).flags) = TCP_PSH + TCP_ACK
          /\ FromBytes(taken[e].dgram).data = arg[Peer(e)].buf
          /\ arg[e].buf # <<>>
          /\ ipIn[e] = <<>>
          /\ hist[e].written = 0
          /\ tcp[e].sequence = FromBytes(taken[Peer(e)].dgram).sequence
    /\ tcp["c"].sequence = tcp["s"].acknowledge
    /\ tcp["s"].sequence = tcp["c"].acknowledge

========================================================================
